---- MODULE Spec2Model ----
(***************************************************************************)
(* Model of the Tarnish class-to-C transpiler: the lexer and printer of    *)
(* src/src/tokenizer.rs and the compile pipeline of src/src/lib.rs.        *)
(* Text is a string, positions are 0-based as in the source, a token is a  *)
(* record [k |-> kind, s |-> text]. A text is the sequence of its UTF-8    *)
(* bytes, each written as the character of that code, which is what        *)
(* `s.as_bytes()[i] as char` reads: U+00E9 is the two bytes "Ã©".         *)
(***************************************************************************)
EXTENDS Integers, Sequences, FiniteSets, TLC

\* ------------------------------------------------------------------------
\* Text and token helpers
\* ------------------------------------------------------------------------

\* s.as_bytes()[i] as char
CharAt(s, i) == SubSeq(s, i + 1, i + 1)

\* &s[a..b]
Slice(s, a, b) == SubSeq(s, a + 1, b)

Min(a, b) == IF a < b THEN a ELSE b

\* the one element of a singleton. Only({ e(x) : x \in {v} }) is e(v) with v
\* evaluated once, where LET x == v IN e(x) evaluates v at every use of x;
\* the passes below hand their intermediate results on in this way
Only(S) == CHOOSE r \in S : TRUE

Tok(kind, text) == [k |-> kind, s |-> text]

Identifier(text) == Tok("Identifier", text)

Number(text) == Tok("Number", text)

Symbol(text) == Tok("Symbol", text)

Newline == Tok("Newline", "")

Eof == Tok("Eof", "")

\* tokens[i]
At(tokens, i) == tokens[i + 1]

\* Option<T>: None, or Some(v) as [some |-> TRUE, v |-> v]
None == [some |-> FALSE]

Some(v) == [some |-> TRUE, v |-> v]

\* tokens.get(i)
Get(tokens, i) == IF i < Len(tokens) THEN Some(At(tokens, i)) ELSE None

IsIdentifier(t) == t.k = "Identifier"

IsSymbol(t, text) == t.k = "Symbol" /\ t.s = text

\* &tokens[a..b]
TokSlice(tokens, a, b) == SubSeq(tokens, a + 1, b)

\* ------------------------------------------------------------------------
\* tokenizer.rs: tokenize
\* ------------------------------------------------------------------------

Digits == {"0", "1", "2", "3", "4", "5", "6", "7", "8", "9"}

Lower == {"a", "b", "c", "d", "e", "f", "g", "h", "i", "j", "k", "l", "m",
          "n", "o", "p", "q", "r", "s", "t", "u", "v", "w", "x", "y", "z"}

Upper == {"A", "B", "C", "D", "E", "F", "G", "H", "I", "J", "K", "L", "M",
          "N", "O", "P", "Q", "R", "S", "T", "U", "V", "W", "X", "Y", "Z"}

\* the bytes outside ASCII the texts below are written with: the lead bytes
\* 0xC2 and 0xC3 and the continuation bytes 0xA9 and 0xAA
LeadBytes == {"Â", "Ã"}

ContinuationBytes == {"©", "ª"}

\* char::is_alphabetic of a byte read as a char (U+00A9 is a symbol)
is_alphabetic(ch) == ch \in Lower \cup Upper \cup LeadBytes \cup {"ª"}

\* char::is_alphanumeric of a byte read as a char
is_alphanumeric(ch) == is_alphabetic(ch) \/ ch \in Digits

\* str::is_char_boundary
is_char_boundary(s, i) ==
    \/ i = 0
    \/ i = Len(s)
    \/ i < Len(s) /\ CharAt(s, i) \notin ContinuationBytes

\* &s[a..b] returns: both ends are char boundaries, else it panics
SliceOk(s, a, b) == is_char_boundary(s, a) /\ is_char_boundary(s, b)

\* char::to_string: the UTF-8 bytes of the char a byte was read as
char_to_string(ch) == IF ch = "©" THEN "Â©" ELSE ch

is_ascii_digit(ch) == ch \in Digits

is_ascii_hexdigit(ch) ==
    ch \in Digits \cup {"a", "b", "c", "d", "e", "f", "A", "B", "C", "D", "E", "F"}

\* char::is_whitespace on the ASCII range
is_whitespace(ch) == ch \in {" ", "\t", "\n", "\r", "\f"}

\* the operator table after ops.sort_by(longest first), a stable sort
ops == << ">>=", "<<=", "==", "!=", "<=", ">=", "->", "++", "--", "&&", "||",
          "+=", "-=", "*=", "/=", "%=", "&=", "|=", "^=", "<<", ">>", "::", "=>" >>

\* while i < len && s[i] != '\n' { i += 1 }
RECURSIVE ScanLineComment(_, _)
ScanLineComment(s, i) ==
    IF i < Len(s) /\ CharAt(s, i) # "\n" THEN ScanLineComment(s, i + 1) ELSE i

\* while i + 1 < len && !(s[i] == '*' && s[i+1] == '/') { i += 1 }
RECURSIVE ScanBlockComment(_, _)
ScanBlockComment(s, i) ==
    IF i + 1 < Len(s) /\ ~(CharAt(s, i) = "*" /\ CharAt(s, i + 1) = "/")
    THEN ScanBlockComment(s, i + 1)
    ELSE i

\* the literal loop: a backslash skips two characters, the quote ends it
RECURSIVE ScanLiteral(_, _, _)
ScanLiteral(s, i, quote) ==
    IF i < Len(s)
    THEN LET c == CharAt(s, i) IN
         IF c = "\\" THEN ScanLiteral(s, i + 2, quote)
         ELSE IF c = quote THEN i + 1
         ELSE ScanLiteral(s, i + 1, quote)
    ELSE i

RECURSIVE ScanDigits(_, _)
ScanDigits(s, i) ==
    IF i < Len(s) /\ is_ascii_digit(CharAt(s, i)) THEN ScanDigits(s, i + 1) ELSE i

RECURSIVE ScanHexDigits(_, _)
ScanHexDigits(s, i) ==
    IF i < Len(s) /\ is_ascii_hexdigit(CharAt(s, i)) THEN ScanHexDigits(s, i + 1) ELSE i

RECURSIVE ScanIdentifier(_, _)
ScanIdentifier(s, i) ==
    IF i < Len(s) /\ (CharAt(s, i) = "_" \/ is_alphanumeric(CharAt(s, i)))
    THEN ScanIdentifier(s, i + 1)
    ELSE i

\* the end of a number that starts at i
ScanNumber(s, i) ==
    IF CharAt(s, i) = "0" /\ i + 1 < Len(s) /\ CharAt(s, i + 1) \in {"x", "X"}
    THEN ScanHexDigits(s, i + 2)
    ELSE LET d == ScanDigits(s, i)
             f == IF d < Len(s) /\ CharAt(s, d) = "." THEN ScanDigits(s, d + 1) ELSE d
         IN  IF f < Len(s) /\ CharAt(s, f) \in {"e", "E"}
             THEN LET g == f + 1
                      h == IF g < Len(s) /\ CharAt(s, g) \in {"+", "-"} THEN g + 1 ELSE g
                  IN  ScanDigits(s, h)
             ELSE f

\* the slice of the operator loop panicked
SlicePanic == [some |-> FALSE, panic |-> TRUE]

\* for &op in &ops { if s[i..i+op.len()] == op { matched_op = Some(op); break } }
\* the loop ends at the first entry, from the n-th on, whose slice panics or
\* equals the entry
MatchOp(s, i, n) ==
    LET stops == { m \in n..Len(ops) :
                     /\ i + Len(ops[m]) <= Len(s)
                     /\ \/ ~SliceOk(s, i, i + Len(ops[m]))
                        \/ Slice(s, i, i + Len(ops[m])) = ops[m] }
    IN  Only({ IF found = {} THEN None
               ELSE Only({ IF SliceOk(s, i, i + Len(ops[m])) THEN Some(ops[m])
                           ELSE SlicePanic
                           : m \in { CHOOSE m \in found : \A o \in found : m <= o } })
               : found \in { stops } })

\* tokens.push(kind(s[start..end].to_string())) and i = next, or the panic
\* of the slice
PushSlice(s, st, kind, start, end, next) ==
    IF SliceOk(s, start, end)
    THEN [st EXCEPT !.i = next, !.tokens = Append(st.tokens, Tok(kind, Slice(s, start, end)))]
    ELSE [st EXCEPT !.ok = FALSE]

\* one iteration of the while loop of tokenize: [i, tokens, ok] after it,
\* ok = FALSE when a slice panicked
tokenize_step(s, st) ==
    LET i == st.i
        ch == CharAt(s, i)
    IN
    IF ch = "\n" THEN [st EXCEPT !.i = i + 1, !.tokens = Append(st.tokens, Newline)]
    ELSE IF is_whitespace(ch) THEN [st EXCEPT !.i = i + 1]
    ELSE IF ch = "/" /\ i + 1 < Len(s) /\ CharAt(s, i + 1) = "/"
    THEN LET e == ScanLineComment(s, i + 2) IN PushSlice(s, st, "Comment", i, e, e)
    ELSE IF ch = "/" /\ i + 1 < Len(s) /\ CharAt(s, i + 1) = "*"
    THEN LET b == ScanBlockComment(s, i + 2)
             e == IF b + 1 < Len(s) THEN b + 2 ELSE b
         IN  PushSlice(s, st, "Comment", i, Min(e, Len(s)), e)
    ELSE IF ch = "\"" \/ ch = "'"
    THEN LET e == ScanLiteral(s, i + 1, ch)
             kind == IF ch = "\"" THEN "StringLit" ELSE "CharLit"
         IN  PushSlice(s, st, kind, i, Min(e, Len(s)), e)
    ELSE IF is_ascii_digit(ch)
            \/ (ch = "." /\ i + 1 < Len(s) /\ is_ascii_digit(CharAt(s, i + 1)))
    THEN LET e == ScanNumber(s, i) IN PushSlice(s, st, "Number", i, Min(e, Len(s)), e)
    ELSE IF ch = "_" \/ is_alphabetic(ch)
    THEN LET e == ScanIdentifier(s, i + 1) IN PushSlice(s, st, "Identifier", i, e, e)
    ELSE LET matched_op == MatchOp(s, i, 1) IN
         IF "panic" \in DOMAIN matched_op THEN [st EXCEPT !.ok = FALSE]
         ELSE IF matched_op.some
         THEN [st EXCEPT !.i = i + Len(matched_op.v),
                         !.tokens = Append(st.tokens, Symbol(matched_op.v))]
         ELSE [st EXCEPT !.i = i + 1,
                         !.tokens = Append(st.tokens, Symbol(char_to_string(ch)))]

\* while i < len { ... }: at most n iterations from st, split in halves so
\* that the evaluation depth stays logarithmic in the length of the text
RECURSIVE tokenize_loop(_, _, _)
tokenize_loop(s, st, n) ==
    IF st.i >= Len(s) \/ ~st.ok THEN st
    ELSE IF n <= 1 THEN tokenize_step(s, st)
    ELSE Only({ tokenize_loop(s, mid, n - (n \div 2))
                : mid \in { tokenize_loop(s, st, n \div 2) } })

\* a call of tokenize: [ok, tokens], the Vec returned or ok = FALSE for the
\* panic of a slice
tokenize_run(input) ==
    Only({ [ok |-> st.ok, tokens |-> IF st.ok THEN Append(st.tokens, Eof) ELSE << >>]
           : st \in { Only({ tokenize_loop(s, [i |-> 0, tokens |-> <<>>, ok |-> TRUE],
                                           Len(s) + 1)
                             : s \in { input } }) } })

\* the Vec a call of tokenize returns
tokenize(input) == tokenize_run(input).tokens

\* ------------------------------------------------------------------------
\* tokenizer.rs: detokenize
\* ------------------------------------------------------------------------

needs_space(prev, current) ==
    IF prev.k = "Newline" \/ current.k = "Newline" \/ prev.k = "Comment" THEN FALSE
    ELSE IF prev.k = "Symbol" /\ current.k = "Symbol"
    THEN LET a == prev.s
             b == current.s
         IN  IF a = "(" \/ b = ")" \/ a = "[" \/ b = "]" THEN FALSE
             ELSE IF a = "." \/ b = "." THEN FALSE
             ELSE IF a = "->" \/ b = "->" THEN FALSE
             ELSE IF a = "<" \/ b = ">" THEN FALSE
             ELSE IF a = ";" \/ b = ";" \/ a = "," \/ b = "," THEN FALSE
             ELSE TRUE
    ELSE IF prev.k = "Identifier" /\ current.k = "Symbol"
    THEN current.s \notin {"(", "[", ".", "->", ";", ",", ">"}
    ELSE IF prev.k = "Symbol" /\ current.k = "Identifier"
    THEN prev.s \notin {"(", "[", ".", "->", "!", "~", "*", "&", "+", "-", "<"}
    ELSE IF prev.k = "Symbol" /\ current.k = "Number"
    THEN prev.s \notin {"(", "[", ".", "->", "!", "~", "*", "&", "+", "-", "<"}
    ELSE IF prev.k = "Number" /\ current.k = "Symbol"
    THEN current.s \notin {"(", "[", ".", "->", ";", ",", ">", ")", "]"}
    ELSE TRUE

\* the text pushed for one token
TokenText(t) == IF t.k = "Newline" THEN "\n" ELSE IF t.k = "Eof" THEN "" ELSE t.s

\* one iteration of the for loop of detokenize over tokens[n]
detokenize_step(tokens, st) ==
    LET token == At(tokens, st.n) IN
    IF token.k = "Eof" THEN [st EXCEPT !.n = st.n + 1]
    ELSE LET sp == IF st.prev_token.some /\ needs_space(st.prev_token.v, token)
                   THEN " " ELSE ""
         IN  [n |-> st.n + 1, prev_token |-> Some(token),
              output |-> st.output \o sp \o TokenText(token)]

RECURSIVE detokenize_loop(_, _, _)
detokenize_loop(tokens, st, n) ==
    IF st.n >= Len(tokens) THEN st
    ELSE IF n <= 1 THEN detokenize_step(tokens, st)
    ELSE Only({ detokenize_loop(tokens, mid, n - (n \div 2))
                : mid \in { detokenize_loop(tokens, st, n \div 2) } })

detokenize(tokens) ==
    Only({ detokenize_loop(t, [n |-> 0, prev_token |-> None, output |-> ""],
                           Len(t) + 1).output
           : t \in { tokens } })

\* ------------------------------------------------------------------------
\* lib.rs: Class, Variable, Function, OperatorOverload and their to_string
\* ------------------------------------------------------------------------

\* Vec<String>::join(sep)
RECURSIVE Join(_, _)
Join(strs, sep) ==
    IF Len(strs) = 0 THEN ""
    ELSE IF Len(strs) = 1 THEN strs[1]
    ELSE strs[1] \o sep \o Join(Tail(strs), sep)

\* the strings of a sequence pushed one after the other
RECURSIVE Concat(_)
Concat(strs) == IF Len(strs) = 0 THEN "" ELSE strs[1] \o Concat(Tail(strs))

\* format!("{}_{}", ns, name) when namespaced, else the name
FullName(namespace, name) ==
    IF namespace.some THEN namespace.v \o "_" \o name ELSE name

Variable_to_string(var) == var.type_ \o " " \o var.name \o ";"

\* the body tokens mapped to their text and joined by one space
BodyJoined(body_tokens) ==
    Join([n \in 1..Len(body_tokens) |-> TokenText(body_tokens[n])], " ")

Function_to_string(f) ==
    LET full_class_name == FullName(f.namespace, f.class_name)
        params == IF Len(f.params) = 0 THEN "" ELSE "," \o Join(f.params, ", ")
    IN  f.return_type \o " " \o full_class_name \o "_" \o f.name
        \o "(" \o full_class_name \o " self" \o params \o ")"
        \o "{" \o BodyJoined(f.body_tokens) \o "}"

\* the canonical suffix of an overloaded operator symbol
OperatorName(operator) ==
    CASE operator = "+" -> "add"
      [] operator = "-" -> "sub"
      [] operator = "*" -> "mul"
      [] operator = "/" -> "div"
      [] operator = "==" -> "eq"
      [] operator = "!=" -> "neq"
      [] operator = "<" -> "lt"
      [] operator = ">" -> "gt"
      [] operator = "<=" -> "le"
      [] operator = ">=" -> "ge"
      [] operator = "+=" -> "add_assign"
      [] operator = "-=" -> "sub_assign"
      [] operator = "*=" -> "mul_assign"
      [] operator = "/=" -> "div_assign"
      [] operator = "++" -> "increment"
      [] operator = "--" -> "decrement"
      [] operator = "[]" -> "index"
      [] OTHER -> "unknown_op"

OperatorOverload_to_string(op) ==
    LET full_class_name == FullName(op.namespace, op.class_name) IN
    op.return_type \o " " \o full_class_name \o "_operator_" \o OperatorName(op.operator)
    \o "(" \o full_class_name \o " self, " \o Join(op.params, ", ") \o ")"
    \o "{" \o BodyJoined(op.body_tokens) \o "}"

Class_to_string(c) ==
    "typedef struct { "
    \o Concat([n \in 1..Len(c.variables) |-> Variable_to_string(c.variables[n])])
    \o " } " \o FullName(c.namespace, c.name) \o ";\n"
    \o Concat([n \in 1..Len(c.functions) |-> Function_to_string(c.functions[n])])
    \o Concat([n \in 1..Len(c.operators) |-> OperatorOverload_to_string(c.operators[n])])

\* ------------------------------------------------------------------------
\* lib.rs: namespace helpers
\* ------------------------------------------------------------------------

\* Some((namespace_name, start_index + 3)) on `namespace Name {`
parse_namespace_declaration(tokens, start_index) ==
    IF /\ IsIdentifier(At(tokens, start_index))
       /\ At(tokens, start_index).s = "namespace"
       /\ Get(tokens, start_index + 1).some
       /\ IsIdentifier(Get(tokens, start_index + 1).v)
       /\ Get(tokens, start_index + 2).some
       /\ IsSymbol(Get(tokens, start_index + 2).v, "{")
    THEN Some([name |-> At(tokens, start_index + 1).s, content_start |-> start_index + 3])
    ELSE None

\* the brace-depth step shared by every depth scan
BraceStep(t, brace_level) ==
    IF IsSymbol(t, "{") THEN brace_level + 1
    ELSE IF IsSymbol(t, "}") THEN brace_level - 1
    ELSE brace_level

\* the depth scan: [i, brace_level] advanced while the depth stays positive
RECURSIVE SkipBracesLoop(_, _, _)
SkipBracesLoop(tokens, st, n) ==
    IF ~(st.i < Len(tokens) /\ st.brace_level > 0) THEN st
    ELSE IF n <= 1
    THEN [i |-> st.i + 1, brace_level |-> BraceStep(At(tokens, st.i), st.brace_level)]
    ELSE Only({ SkipBracesLoop(tokens, mid, n - (n \div 2))
                : mid \in { SkipBracesLoop(tokens, st, n \div 2) } })

SkipBraces(tokens, i, brace_level) ==
    Only({ SkipBracesLoop(t, st, Len(t) + 1).i
           : t \in { tokens }, st \in { [i |-> i, brace_level |-> brace_level] } })

find_namespace_end(tokens, start_index) == SkipBraces(tokens, start_index, 1)

\* ------------------------------------------------------------------------
\* lib.rs: class body parser
\* ------------------------------------------------------------------------

\* the parameter loop: [params, p] after the closing parenthesis or at the end
RECURSIVE ParseParams(_, _, _)
ParseParams(tokens, p, params) ==
    IF p >= Len(tokens) THEN [params |-> params, p |-> p]
    ELSE IF IsSymbol(At(tokens, p), ")") THEN [params |-> params, p |-> p + 1]
    ELSE IF IsSymbol(At(tokens, p), ",") THEN ParseParams(tokens, p + 1, params)
    ELSE IF /\ IsIdentifier(At(tokens, p))
            /\ p + 1 < Len(tokens)
            /\ IsIdentifier(At(tokens, p + 1))
    THEN ParseParams(tokens, p + 2,
                     Append(params, At(tokens, p).s \o " " \o At(tokens, p + 1).s))
    ELSE ParseParams(tokens, p + 1, params)

\* while p < len { if tokens[p] == "{" { break } p += 1 }
RECURSIVE FindOpenBrace(_, _)
FindOpenBrace(tokens, p) ==
    IF p < Len(tokens) /\ ~IsSymbol(At(tokens, p), "{")
    THEN FindOpenBrace(tokens, p + 1)
    ELSE p

\* the body loop: tokens pushed while the depth stays positive; [body, b]
RECURSIVE CaptureBody(_, _, _, _)
CaptureBody(tokens, b, brace_level, body_tokens) ==
    IF b < Len(tokens) /\ brace_level > 0
    THEN LET lvl == BraceStep(At(tokens, b), brace_level) IN
         CaptureBody(tokens, b + 1, lvl,
                     IF lvl > 0 THEN Append(body_tokens, At(tokens, b)) ELSE body_tokens)
    ELSE [body |-> body_tokens, b |-> b]

parse_operator_overload(tokens, start_index, class_name, namespace) ==
    IF start_index + 4 >= Len(tokens) THEN None
    ELSE IF /\ IsIdentifier(At(tokens, start_index))
            /\ IsIdentifier(At(tokens, start_index + 1))
            /\ At(tokens, start_index + 1).s = "operator"
            /\ At(tokens, start_index + 2).k = "Symbol"
            /\ IsSymbol(At(tokens, start_index + 3), "(")
    THEN LET pr == ParseParams(tokens, start_index + 4, <<>>)
             p == FindOpenBrace(tokens, pr.p)
         IN  IF p < Len(tokens)
             THEN LET bd == CaptureBody(tokens, p + 1, 1, <<>>) IN
                  Some([op |-> [class_name |-> class_name,
                                namespace |-> namespace,
                                operator |-> At(tokens, start_index + 2).s,
                                return_type |-> At(tokens, start_index).s,
                                params |-> pr.params,
                                body_tokens |-> bd.body],
                        next |-> bd.b])
             ELSE None
    ELSE None

\* one iteration of the while loop of parse_functions_with_operators; the
\* `break` of an unterminated function header ends the loop (i = len)
parse_functions_step(tokens, class, namespace, st) ==
    LET i == st.i
        po == parse_operator_overload(tokens, i, class, namespace)
    IN
    IF po.some
    THEN [st EXCEPT !.i = po.v.next, !.operators = Append(st.operators, po.v.op)]
    ELSE IF /\ i + 2 < Len(tokens)
            /\ IsIdentifier(At(tokens, i))
            /\ IsIdentifier(At(tokens, i + 1))
            /\ IsSymbol(At(tokens, i + 2), "(")
    THEN LET pr == ParseParams(tokens, i + 3, <<>>)
             p == FindOpenBrace(tokens, pr.p)
         IN  IF p < Len(tokens)
             THEN LET bd == CaptureBody(tokens, p + 1, 1, <<>>) IN
                  [st EXCEPT !.i = bd.b,
                             !.functions =
                                 Append(st.functions,
                                        [class_name |-> class,
                                         namespace |-> namespace,
                                         name |-> At(tokens, i + 1).s,
                                         return_type |-> At(tokens, i).s,
                                         params |-> pr.params,
                                         body_tokens |-> bd.body])]
             ELSE [st EXCEPT !.i = Len(tokens)]
    ELSE [st EXCEPT !.i = i + 1]

RECURSIVE parse_functions_loop(_, _, _, _, _)
parse_functions_loop(tokens, class, namespace, st, n) ==
    IF st.i >= Len(tokens) THEN st
    ELSE IF n <= 1 THEN parse_functions_step(tokens, class, namespace, st)
    ELSE Only({ parse_functions_loop(tokens, class, namespace, mid, n - (n \div 2))
                : mid \in { parse_functions_loop(tokens, class, namespace, st, n \div 2) } })

parse_functions_with_operators(tokens, class, namespace) ==
    Only({ parse_functions_loop(t, class, namespace,
                                [i |-> 0, functions |-> <<>>, operators |-> <<>>],
                                Len(t) + 1)
           : t \in { tokens } })

\* while j < len { if tokens[j] == ";" { break } j += 1 }
RECURSIVE FindSemicolon(_, _)
FindSemicolon(tokens, j) ==
    IF j < Len(tokens) /\ ~IsSymbol(At(tokens, j), ";")
    THEN FindSemicolon(tokens, j + 1)
    ELSE j

\* the `Type name ;` / `Type name = ... ;` scan of parse_variables and of
\* collect_all_variables_with_namespace (the two loops are the same text)
VariableScanStep(tokens, st) ==
    LET i == st.i IN
    IF /\ IsIdentifier(At(tokens, i))
       /\ IsIdentifier(At(tokens, i + 1))
       /\ IsSymbol(At(tokens, i + 2), ";")
    THEN [i |-> i + 3,
          vars |-> Append(st.vars, [name |-> At(tokens, i + 1).s, type_ |-> At(tokens, i).s])]
    ELSE IF /\ IsIdentifier(At(tokens, i))
            /\ IsIdentifier(At(tokens, i + 1))
            /\ IsSymbol(At(tokens, i + 2), "=")
    THEN [i |-> FindSemicolon(tokens, i + 3) + 1,
          vars |-> Append(st.vars, [name |-> At(tokens, i + 1).s, type_ |-> At(tokens, i).s])]
    ELSE [st EXCEPT !.i = i + 1]

\* while i + 2 < tokens.len() { ... }
RECURSIVE VariableScanLoop(_, _, _)
VariableScanLoop(tokens, st, n) ==
    IF st.i + 2 >= Len(tokens) THEN st
    ELSE IF n <= 1 THEN VariableScanStep(tokens, st)
    ELSE Only({ VariableScanLoop(tokens, mid, n - (n \div 2))
                : mid \in { VariableScanLoop(tokens, st, n \div 2) } })

VariableScan(tokens) ==
    Only({ VariableScanLoop(t, [i |-> 0, vars |-> <<>>], Len(t) + 1).vars
           : t \in { tokens } })

parse_variables(tokens) == VariableScan(tokens)

\* a table that holds the variables of registered types only
collect_registered_variables(tokens, class_names) ==
    SelectSeq(VariableScan(tokens), LAMBDA v : v.type_ \in DOMAIN class_names)

collect_all_variables_with_namespace(tokens, class_names) == VariableScan(tokens)

\* ------------------------------------------------------------------------
\* lib.rs: the registry (HashMap<String, String>)
\* ------------------------------------------------------------------------

EmptyMap == [x \in {} |-> ""]

\* an insert that keeps the mapping a key already has
MapInsertKeepsFirst(m, key, value) ==
    [x \in DOMAIN m \cup {key} |-> IF x \in DOMAIN m THEN m[x] ELSE value]

\* known_classes.insert(key, value)
MapInsert(m, key, value) ==
    [x \in DOMAIN m \cup {key} |-> IF x = key THEN value ELSE m[x]]

\* class_names.get(&type_).unwrap_or(&type_)
GetOrSelf(class_names, type_) ==
    IF type_ \in DOMAIN class_names THEN class_names[type_] ELSE type_

\* ------------------------------------------------------------------------
\* lib.rs: the call-site lowering pass
\* ------------------------------------------------------------------------

BinaryOperators ==
    {"+", "-", "*", "/", "==", "!=", "<", ">", "<=", ">=", "+=", "-=", "*=", "/="}

\* the table with the suffixes of <= and >= exchanged
BinaryOperatorNameSwapped(operator) ==
    IF operator = "<=" THEN "ge"
    ELSE IF operator = ">=" THEN "le"
    ELSE OperatorName(operator)

\* the match of the binary branch (its table has no ++, -- or [])
BinaryOperatorName(operator) ==
    CASE operator = "+" -> "add"
      [] operator = "-" -> "sub"
      [] operator = "*" -> "mul"
      [] operator = "/" -> "div"
      [] operator = "==" -> "eq"
      [] operator = "!=" -> "neq"
      [] operator = "<" -> "lt"
      [] operator = ">" -> "gt"
      [] operator = "<=" -> "le"
      [] operator = ">=" -> "ge"
      [] operator = "+=" -> "add_assign"
      [] operator = "-=" -> "sub_assign"
      [] operator = "*=" -> "mul_assign"
      [] operator = "/=" -> "div_assign"
      [] OTHER -> "unknown_op"

UnaryOperatorName(operator) ==
    CASE operator = "++" -> "increment"
      [] operator = "--" -> "decrement"
      [] OTHER -> "unknown_op"

\* a lookup that returns the last entry of that name
RECURSIVE FindVariableLast(_, _, _)
FindVariableLast(variables, name, n) ==
    IF n > Len(variables) THEN None
    ELSE LET rest == FindVariableLast(variables, name, n + 1) IN
         IF rest.some THEN rest
         ELSE IF variables[n].name = name THEN Some(variables[n])
         ELSE None

\* variables.iter().find(|v| v.name == name): the first entry of that name
RECURSIVE FindVariable(_, _, _)
FindVariable(variables, name, n) ==
    IF n > Len(variables) THEN None
    ELSE IF variables[n].name = name THEN Some(variables[n])
    ELSE FindVariable(variables, name, n + 1)

\* the balanced-parenthesis scan of a method call: [call_params, p]
RECURSIVE CollectCallParams(_, _, _, _)
CollectCallParams(tokens, p, paren_level, call_params) ==
    IF p < Len(tokens) /\ paren_level > 0
    THEN IF IsSymbol(At(tokens, p), "(")
         THEN CollectCallParams(tokens, p + 1, paren_level + 1,
                                Append(call_params, At(tokens, p)))
         ELSE IF IsSymbol(At(tokens, p), ")")
         THEN CollectCallParams(tokens, p + 1, paren_level - 1,
                                IF paren_level - 1 > 0
                                THEN Append(call_params, At(tokens, p))
                                ELSE call_params)
         ELSE CollectCallParams(tokens, p + 1, paren_level,
                                Append(call_params, At(tokens, p)))
    ELSE [call_params |-> call_params, p |-> p]

\* the tokens pushed for `v OP t`
BinaryCall(class_with_namespace, operator, left_operand, right) ==
    << Identifier(class_with_namespace \o "_operator_" \o BinaryOperatorName(operator)),
       Symbol("("), Identifier(left_operand), Symbol(","), right, Symbol(")") >>

\* the tokens pushed for `v++`, `v--`, `++v`, `--v`
UnaryCall(class_with_namespace, operator, operand) ==
    << Identifier(class_with_namespace \o "_operator_" \o UnaryOperatorName(operator)),
       Symbol("("), Identifier(operand), Symbol(")") >>

\* the method call with the comma pushed whether or not there are arguments
MethodCallAlwaysComma(class_with_namespace, method_name, left_operand, call_params) ==
    << Identifier(class_with_namespace \o "_" \o method_name),
       Symbol("("), Identifier(left_operand), Symbol(",") >>
    \o call_params \o << Symbol(")") >>

\* the tokens pushed for `v . m ( args )`
MethodCall(class_with_namespace, method_name, left_operand, call_params) ==
    << Identifier(class_with_namespace \o "_" \o method_name),
       Symbol("("), Identifier(left_operand) >>
    \o (IF Len(call_params) # 0 THEN <<Symbol(",")>> \o call_params ELSE <<>>)
    \o << Symbol(")") >>

\* one iteration of the while loop at position i: [out, i] with the tokens
\* pushed and the next position
LowerStep(tokens, variables, class_names, i) ==
    LET t == At(tokens, i)
        var == IF IsIdentifier(t) THEN FindVariable(variables, t.s, 1) ELSE None
        isBinary == /\ var.some
                    /\ i + 2 < Len(tokens)
                    /\ At(tokens, i + 1).k = "Symbol"
                    /\ At(tokens, i + 1).s \in BinaryOperators
        isPostfix == /\ var.some
                     /\ i + 2 < Len(tokens)
                     /\ At(tokens, i + 1).k = "Symbol"
                     /\ At(tokens, i + 1).s \in {"++", "--"}
        isMethod == /\ var.some
                    /\ i + 3 < Len(tokens)
                    /\ IsSymbol(At(tokens, i + 1), ".")
                    /\ IsIdentifier(At(tokens, i + 2))
                    /\ IsSymbol(At(tokens, i + 3), "(")
        operandVar == IF /\ t.k = "Symbol"
                         /\ t.s \in {"++", "--"}
                         /\ i + 1 < Len(tokens)
                         /\ IsIdentifier(At(tokens, i + 1))
                      THEN FindVariable(variables, At(tokens, i + 1).s, 1)
                      ELSE None
        isScope == /\ IsIdentifier(t)
                   /\ i + 2 < Len(tokens)
                   /\ IsSymbol(At(tokens, i + 1), "::")
                   /\ IsIdentifier(At(tokens, i + 2))
    IN
    IF isBinary
    THEN [out |-> BinaryCall(GetOrSelf(class_names, var.v.type_),
                             At(tokens, i + 1).s, t.s, At(tokens, i + 2)),
          i |-> i + 3]
    ELSE IF isPostfix
    THEN [out |-> UnaryCall(GetOrSelf(class_names, var.v.type_), At(tokens, i + 1).s, t.s),
          i |-> i + 2]
    ELSE IF isMethod
    THEN LET cp == CollectCallParams(tokens, i + 4, 1, <<>>) IN
         [out |-> MethodCall(GetOrSelf(class_names, var.v.type_),
                             At(tokens, i + 2).s, t.s, cp.call_params),
          i |-> cp.p]
    ELSE IF operandVar.some
    THEN [out |-> UnaryCall(GetOrSelf(class_names, operandVar.v.type_),
                            t.s, At(tokens, i + 1).s),
          i |-> i + 2]
    ELSE IF isScope
    THEN [out |-> << Identifier(t.s \o "_" \o At(tokens, i + 2).s) >>, i |-> i + 3]
    ELSE [out |-> << t >>, i |-> i + 1]

\* a scan that goes on at the last token a rule consumed
RECURSIVE LowerLoopRescan(_, _, _, _, _)
LowerLoopRescan(tokens, variables, class_names, st, n) ==
    IF st.i >= Len(tokens) THEN st
    ELSE IF n <= 1
    THEN LET step == LowerStep(tokens, variables, class_names, st.i) IN
         [i |-> IF step.i > st.i + 1 THEN step.i - 1 ELSE step.i, out |-> st.out \o step.out]
    ELSE Only({ LowerLoopRescan(tokens, variables, class_names, mid, n - (n \div 2))
                : mid \in { LowerLoopRescan(tokens, variables, class_names, st, n \div 2) } })

\* while i < tokens.len() { ... }: at most n iterations from st
RECURSIVE LowerLoop(_, _, _, _, _)
LowerLoop(tokens, variables, class_names, st, n) ==
    IF st.i >= Len(tokens) THEN st
    ELSE IF n <= 1
    THEN LET step == LowerStep(tokens, variables, class_names, st.i) IN
         [i |-> step.i, out |-> st.out \o step.out]
    ELSE Only({ LowerLoop(tokens, variables, class_names, mid, n - (n \div 2))
                : mid \in { LowerLoop(tokens, variables, class_names, st, n \div 2) } })

parse_function_calls_with_operators(tokens, class_names) ==
    Only({ LowerLoop(t, variables, class_names, [i |-> 0, out |-> <<>>], Len(t) + 1).out
           : t \in { tokens },
             variables \in { collect_all_variables_with_namespace(tokens, class_names) } })

\* ------------------------------------------------------------------------
\* lib.rs: the class definition emitter
\* ------------------------------------------------------------------------

\* classes.iter().find(|c| c.name == class_name)
RECURSIVE FindClass(_, _, _)
FindClass(classes, class_name, n) ==
    IF n > Len(classes) THEN None
    ELSE IF classes[n].name = class_name THEN Some(classes[n])
    ELSE FindClass(classes, class_name, n + 1)

\* the generated text re-lexed, without its Eof
GeneratedTokens(class) ==
    SelectSeq(tokenize(Class_to_string(class)), LAMBDA t : t.k # "Eof")

\* a Result: the tokens, or a panic (slice index starts after its end)
Ok(toks) == [ok |-> TRUE, toks |-> toks]

Panic == [ok |-> FALSE, toks |-> <<>>]

\* replace_class_tokens with the token Vec of every class at hand: to_string
\* and tokenize are pure, so generated[c] is what the loop computes each time
\* it meets the name of c; the function calls itself on the content of a
\* namespace
RECURSIVE replace_class_tokens_in(_, _, _)

\* one iteration of the while loop of replace_class_tokens; a panic of the
\* namespace slice ends the loop
replace_class_step(tokens, classes, generated, st) ==
    LET i == st.i
        ns == parse_namespace_declaration(tokens, i)
    IN
    IF ns.some
    THEN LET namespace_end == find_namespace_end(tokens, ns.v.content_start) IN
         IF ns.v.content_start > namespace_end - 1
         THEN [st EXCEPT !.ok = FALSE]
         ELSE LET processed_content ==
                      replace_class_tokens_in(
                          TokSlice(tokens, ns.v.content_start, namespace_end - 1),
                          classes, generated)
              IN  IF processed_content.ok
                  THEN [st EXCEPT !.i = namespace_end,
                                  !.out = st.out \o processed_content.toks]
                  ELSE [st EXCEPT !.ok = FALSE]
    ELSE IF /\ IsIdentifier(At(tokens, i))
            /\ At(tokens, i).s = "class"
            /\ Get(tokens, i + 1).some
            /\ IsIdentifier(Get(tokens, i + 1).v)
            /\ FindClass(classes, At(tokens, i + 1).s, 1).some
    THEN LET open == Get(tokens, i + 2).some /\ IsSymbol(Get(tokens, i + 2).v, "{")
             e == IF open THEN SkipBraces(tokens, i + 3, 1) ELSE i + 2
         IN  [st EXCEPT !.i = e,
                        !.out = st.out
                                \o generated[FindClass(classes, At(tokens, i + 1).s, 1).v]]
    ELSE [st EXCEPT !.i = i + 1, !.out = Append(st.out, At(tokens, i))]

RECURSIVE replace_class_loop(_, _, _, _, _)
replace_class_loop(tokens, classes, generated, st, n) ==
    IF st.i >= Len(tokens) \/ ~st.ok THEN st
    ELSE IF n <= 1 THEN replace_class_step(tokens, classes, generated, st)
    ELSE Only({ replace_class_loop(tokens, classes, generated, mid, n - (n \div 2))
                : mid \in { replace_class_loop(tokens, classes, generated, st, n \div 2) } })

replace_class_tokens_in(tokens, classes, generated) ==
    Only({ IF st.ok THEN Ok(st.out) ELSE Panic
           : st \in { Only({ replace_class_loop(t, classes, generated,
                                                [i |-> 0, out |-> <<>>, ok |-> TRUE],
                                                Len(t) + 1)
                             : t \in { tokens } }) } })

replace_class_tokens(tokens, classes) ==
    Only({ replace_class_tokens_in(tokens, c, g)
           : c \in { classes },
             g \in { [class \in { classes[n] : n \in 1..Len(classes) }
                       |-> GeneratedTokens(class)] } })

\* ------------------------------------------------------------------------
\* lib.rs: compile_with_context, the passes around the import loop
\* ------------------------------------------------------------------------

\* one iteration of the first-pass loop: [i, current_namespace, known]
FirstPassStep(tokens, st) ==
    LET i == st.i
        ns == parse_namespace_declaration(tokens, i)
    IN
    IF ns.some
    THEN [st EXCEPT !.i = ns.v.content_start, !.current_namespace = Some(ns.v.name)]
    ELSE IF st.current_namespace.some /\ IsSymbol(At(tokens, i), "}")
    THEN [st EXCEPT !.i = i + 1, !.current_namespace = None]
    ELSE IF /\ IsIdentifier(At(tokens, i))
            /\ At(tokens, i).s = "class"
            /\ Get(tokens, i + 1).some
            /\ IsIdentifier(Get(tokens, i + 1).v)
    THEN [st EXCEPT !.i = i + 1,
                    !.known = MapInsert(st.known, At(tokens, i + 1).s,
                                        FullName(st.current_namespace, At(tokens, i + 1).s))]
    ELSE [st EXCEPT !.i = i + 1]

RECURSIVE FirstPassLoop(_, _, _)
FirstPassLoop(tokens, st, n) ==
    IF st.i >= Len(tokens) THEN st
    ELSE IF n <= 1 THEN FirstPassStep(tokens, st)
    ELSE Only({ FirstPassLoop(tokens, mid, n - (n \div 2))
                : mid \in { FirstPassLoop(tokens, st, n \div 2) } })

\* first pass: the class names of this file written to the registry
FirstPass(tokens, known_classes) ==
    Only({ FirstPassLoop(t, [i |-> 0, current_namespace |-> None, known |-> k],
                         Len(t) + 1).known
           : t \in { tokens }, k \in { known_classes } })

\* the class body loop of the second pass: [body, j]
RECURSIVE ClassBodyLoop(_, _, _)
ClassBodyLoop(tokens, st, n) ==
    IF ~(st.j < Len(tokens) /\ st.brace_level > 0) THEN st
    ELSE IF n <= 1
    THEN IF IsSymbol(At(tokens, st.j), "{")
         THEN [j |-> st.j + 1, brace_level |-> st.brace_level + 1,
               body |-> Append(st.body, At(tokens, st.j))]
         ELSE IF IsSymbol(At(tokens, st.j), "}")
         THEN [j |-> st.j + 1, brace_level |-> st.brace_level - 1,
               body |-> IF st.brace_level - 1 > 0
                        THEN Append(st.body, At(tokens, st.j))
                        ELSE st.body]
         ELSE [j |-> st.j + 1, brace_level |-> st.brace_level,
               body |-> Append(st.body, At(tokens, st.j))]
    ELSE Only({ ClassBodyLoop(tokens, mid, n - (n \div 2))
                : mid \in { ClassBodyLoop(tokens, st, n \div 2) } })

ClassBody(tokens, j, brace_level, class_body_tokens) ==
    Only({ [body |-> fin.body, j |-> fin.j]
           : fin \in { Only({ ClassBodyLoop(t, st, Len(t) + 1)
                               : t \in { tokens },
                                 st \in { [j |-> j, brace_level |-> brace_level,
                                           body |-> class_body_tokens] } }) } })

\* one iteration of the second-pass loop: [i, current_namespace, classes]
ParseClassesStep(tokens, st) ==
    LET i == st.i
        ns == parse_namespace_declaration(tokens, i)
    IN
    IF ns.some
    THEN [st EXCEPT !.i = ns.v.content_start, !.current_namespace = Some(ns.v.name)]
    ELSE IF st.current_namespace.some /\ IsSymbol(At(tokens, i), "}")
    THEN [st EXCEPT !.i = i + 1, !.current_namespace = None]
    ELSE IF /\ IsIdentifier(At(tokens, i))
            /\ At(tokens, i).s = "class"
            /\ Get(tokens, i + 1).some
            /\ IsIdentifier(Get(tokens, i + 1).v)
    THEN LET class_name == At(tokens, i + 1).s
             open == Get(tokens, i + 2).some /\ IsSymbol(Get(tokens, i + 2).v, "{")
             cb == IF open THEN ClassBody(tokens, i + 3, 1, <<>>)
                   ELSE [body |-> <<>>, j |-> i + 2]
             fo == parse_functions_with_operators(cb.body, class_name, st.current_namespace)
         IN  [st EXCEPT !.i = cb.j,
                        !.classes =
                            Append(st.classes,
                                   [name |-> class_name,
                                    namespace |-> st.current_namespace,
                                    variables |-> IF open THEN parse_variables(cb.body)
                                                  ELSE <<>>,
                                    functions |-> IF open THEN fo.functions ELSE <<>>,
                                    operators |-> IF open THEN fo.operators ELSE <<>>])]
    ELSE [st EXCEPT !.i = i + 1]

RECURSIVE ParseClassesLoop(_, _, _)
ParseClassesLoop(tokens, st, n) ==
    IF st.i >= Len(tokens) THEN st
    ELSE IF n <= 1 THEN ParseClassesStep(tokens, st)
    ELSE Only({ ParseClassesLoop(tokens, mid, n - (n \div 2))
                : mid \in { ParseClassesLoop(tokens, st, n \div 2) } })

\* second pass: the Class entities of the import-expanded stream
ParseClasses(tokens) ==
    Only({ ParseClassesLoop(t, [i |-> 0, current_namespace |-> None, classes |-> <<>>],
                            Len(t) + 1).classes
           : t \in { tokens } })

\* the passes after the import loop with the class entities taken from the
\* stream the lowering pass returned
FinishCompileLoweredBodies(tokens, known_classes) ==
    LET Emit(classes, lowered) ==
            Only({ [ok |-> replaced.ok,
                    text |-> IF replaced.ok THEN detokenize(replaced.toks) ELSE "",
                    lowered |-> lowered]
                   : replaced \in { replace_class_tokens(lowered, classes) } })
    IN  Only({ Emit(ParseClasses(lowered), lowered)
               : lowered \in { parse_function_calls_with_operators(tokens, known_classes) } })

\* the passes after the import loop: the final text, or a panic; the output
\* of the lowering pass is kept beside it
FinishCompile(tokens, known_classes) ==
    LET Emit(classes, lowered) ==
            Only({ [ok |-> replaced.ok,
                    text |-> IF replaced.ok THEN detokenize(replaced.toks) ELSE "",
                    lowered |-> lowered]
                   : replaced \in { replace_class_tokens(lowered, classes) } })
    IN  Only({ Emit(classes, lowered)
               : classes \in { ParseClasses(tokens) },
                 lowered \in { parse_function_calls_with_operators(tokens, known_classes) } })

\* ------------------------------------------------------------------------
\* lib.rs: compile_with_context, the import loop
\* ------------------------------------------------------------------------

\* a test that recognises no directive
IsImportDirectiveNever(tokens, i) == FALSE

\* the `# import <` test at position i
IsImportDirective(tokens, i) ==
    /\ IsSymbol(At(tokens, i), "#")
    /\ IsIdentifier(At(tokens, i + 1))
    /\ At(tokens, i + 1).s = "import"
    /\ IsSymbol(At(tokens, i + 2), "<")

\* the payload scan: [filename, end_of_import]
RECURSIVE ScanFilename(_, _, _)
ScanFilename(tokens, end_of_import, filename) ==
    LET token == Get(tokens, end_of_import) IN
    IF ~token.some THEN [filename |-> filename, end_of_import |-> end_of_import]
    ELSE IF IsSymbol(token.v, ">")
    THEN [filename |-> filename, end_of_import |-> end_of_import]
    ELSE IF token.v.k \in {"Identifier", "Symbol"}
    THEN ScanFilename(tokens, end_of_import + 1, filename \o token.v.s)
    ELSE [filename |-> filename, end_of_import |-> end_of_import]

\* a splice that removes the directive and inserts nothing
SpliceDropsImport(tokens, from, to, new) ==
    SubSeq(tokens, 1, from) \o SubSeq(tokens, to + 2, Len(tokens))

\* tokens.splice(from..=to, new)
Splice(tokens, from, to, new) ==
    SubSeq(tokens, 1, from) \o new \o SubSeq(tokens, to + 2, Len(tokens))

\* the registry passed by value: the importer keeps what it held
WriteThroughLost(importer_known, imported_known) == importer_known

\* known_classes is passed as &mut: what the importer holds after the call
\* is what the imported compile left
WriteThrough(importer_known, imported_known) == imported_known

\* ------------------------------------------------------------------------
\* The working directory and the source texts compiled
\* ------------------------------------------------------------------------

\* the deepest chain of nested compile_with_context calls followed
MaxDepth == 4

\* the longest argument list, in atoms, of the method calls compiled
MaxArgs == 3

\* the readable files; every other name ("M") cannot be read
Files ==
    [f \in {"A", "lib.z", "B", "D", "R", "X", "Y", "N", "U", "S", "E", "V"} |->
        CASE f = "A" -> "namespace a { class P { int v; int get(){ return self.v ; } } }"
          [] f = "lib.z" -> "namespace b { class P { int v; } }"
          [] f = "B" -> "#import <A>\nclass Q { int w; }"
          [] f = "D" -> "class Q { int w; }\n#import <M>"
          [] f = "R" -> "#import <R>"
          [] f = "X" -> "int k;\n#import <Y>"
          [] f = "Y" -> "#import <X>"
          [] f = "N" -> "namespace a { namespace b {"
          [] f = "U" -> "k + 1 ;"
          [] f = "S" -> "class K { int f(){ return m::g ; } }"
          [] f = "E" -> "int Ã©;"
          [] f = "V" -> "Vec a ;"]

\* a read that yields the empty text for a file that is not there
read_to_string_lenient(filename) ==
    IF filename \in DOMAIN Files THEN Some(Files[filename]) ELSE Some("")

\* std::fs::read_to_string(&filename)
read_to_string(filename) ==
    IF filename \in DOMAIN Files THEN Some(Files[filename]) ELSE None

\* the first n entries of a sequence
Take(seq, n) == SubSeq(seq, 1, Min(n, Len(seq)))

\* a class block with nf fields, nm methods and no operator overloads
FieldDecls == << "int x;", "int y;" >>

MethodDecls == << "int getX(){ return self.x ; }", "int sum(int a, int b){ return a ; }" >>

OperatorDecls == << "Point operator+(Point other){ return other ; }",
                    "int operator==(Point other){ return 1 ; }" >>

ClassText(name, nf, nm, no) ==
    "class " \o name \o " { "
    \o Join(Take(FieldDecls, nf) \o Take(MethodDecls, nm) \o Take(OperatorDecls, no), " ")
    \o " }"

EmitSrc(a) ==
    IF a.ns = "" THEN ClassText("Point", a.nf, a.nm, a.no)
    ELSE "namespace " \o a.ns \o " { " \o ClassText("Point", a.nf, a.nm, a.no) \o " }"

EmitParams == [ns : {"", "geo"}, nf : 0..2, nm : 0..2, no : 0..2]

\* two class blocks of one short name in two namespaces
SameNameSrc == "namespace a { class P { int x; } } namespace b { class P { int y; } }"

\* a class named without a body before the block that defines it
MentionRoots ==
    { "class P ; class P { int x; }",
      "class P ; namespace a { class P { int x; int get(){ return 1 ; } } }" }

\* a class with one member function: a method or an overload of the
\* operator sym, declared with the first np of the parameters
ParamDecls == << "int a", "int b" >>

SignatureParams == [ns : {"", "geo"}, sym : {"", "++", "+", "=="}, np : 0..2]

SignatureHead(a) == IF a.sym = "" THEN "int getX" ELSE "int operator " \o a.sym

SignatureSrc(a) ==
    (IF a.ns = "" THEN "" ELSE "namespace " \o a.ns \o " { ")
    \o "class Point { int x; " \o SignatureHead(a)
    \o " ( " \o Join(Take(ParamDecls, a.np), " , ") \o " ) { return self.x ; } }"
    \o (IF a.ns = "" THEN "" ELSE " }")

\* a class that overloads one operator: the seventeen symbols of the
\* suffix table and three symbols outside it
OverloadSymbols ==
    {"+", "-", "*", "/", "==", "!=", "<", ">", "<=", ">=", "+=", "-=", "*=", "/=",
     "++", "--", "[]", "%", "<<", "!"}

OverloadParams == [ns : {"", "geo"}, sym : OverloadSymbols]

OverloadSrc(a) ==
    (IF a.ns = "" THEN "" ELSE "namespace " \o a.ns \o " { ")
    \o "class Point { int x; int operator" \o a.sym \o "(int a){ return self.x ; } }"
    \o (IF a.ns = "" THEN "" ELSE " }")

\* a class with the fields x and y and, between them, a method whose body
\* is the statements given
FieldBodies == {"int tmp = 0 ; return tmp ;", "self . x = 1 ;", "return self . x ;", ""}

FieldSrc(body) == "class P { int x; int f(){ " \o body \o " } int y; }"

\* roots that declare the variable a twice, with two types: in the root, in
\* a class of the root or in an imported file; a is used once, before,
\* between or after the two declarations
RedeclItems ==
    { [text |-> "Mat a ;\n", type_ |-> "Mat"],
      [text |-> "Cat a = 1 ;\n", type_ |-> "Cat"],
      [text |-> "class K { Dog a ; }\n", type_ |-> "Dog"],
      [text |-> "#import <V>\n", type_ |-> "Vec"] }

RedeclParams ==
    { a \in [first : RedeclItems, second : RedeclItems, use_at : 0..2] : a.first # a.second }

RedeclSrc(a) ==
    LET use(n) == IF a.use_at = n THEN "a ++ ;\n" ELSE ""
    IN  use(0) \o a.first.text \o use(1) \o a.second.text \o use(2)

\* what stands before the class inside the namespace
NamespacePre == {"", "class A { int f(){ return 1 ; } }", "int h(){ return 1 ; }"}

NamespaceSrc(pre) ==
    "namespace geo { " \o pre
    \o " class Point { int x; int getX(){ return self.x ; } } } Point p; p.getX();"

\* the class of the typed variable, declared in a namespace or not at all
NamespaceText(ns, type_) ==
    IF ns = "" THEN "" ELSE "namespace " \o ns \o " { class " \o type_ \o " { int x; } } "

\* the declaration of the typed variable before its use
DeclText(ns, type_, var) == NamespaceText(ns, type_) \o type_ \o " " \o var \o " ; r = "

\* the atoms an argument list is made of
ArgAtoms == { <<"x">>, <<",">>, <<"(">>, <<")">>, <<"p", ".", "n", "(", ")">> }

RECURSIVE ArgLists(_)
ArgLists(n) ==
    IF n = 0 THEN { <<>> }
    ELSE ArgLists(n - 1) \cup { l \o a : l \in ArgLists(n - 1), a \in ArgAtoms }

\* late: the variable is declared after the call instead of before it
MethodParams == [ns : {"", "geo"}, late : BOOLEAN, args : ArgLists(MaxArgs)]

\* the text before the call
MethodPre(a) ==
    IF a.late THEN NamespaceText(a.ns, "Point") \o "r = " ELSE DeclText(a.ns, "Point", "p")

MethodSrc(a) ==
    MethodPre(a) \o "p . getX ( " \o Join(a.args, " ") \o " ) ;"
    \o (IF a.late THEN " Point p ;" ELSE "")

RhsTexts == {"b", "1", "(", "a", "-"}

BinaryParams == [ns : {"", "geo"}, op : BinaryOperators, rhs : RhsTexts]

BinarySrc(a) == DeclText(a.ns, "Vec", "a") \o "a " \o a.op \o " " \o a.rhs \o " . x ;"

\* roots that import the files named, in that order, one directive a line
ImportLists ==
    { <<"A", "B">>, <<"A", "lib.z">>, <<"lib.z", "A">>, <<"B">>, <<"M">>, <<"A", "M">>,
      <<"D">>, <<"R">>, <<"X">>, <<"M", "R">>, <<"N", "R">>, <<"N">>, <<"A", "E">> }

ImportSrc(imports) ==
    Concat([n \in 1..Len(imports) |-> "#import <" \o imports[n] \o ">\n"])
    \o "P u; u.get();"

\* roots that declare the class P themselves, before or after their import
\* directives, and import files that declare a class P as well
ShadowParams ==
    [imports : { <<"A">>, <<"lib.z">>, <<"A", "lib.z">>, <<"lib.z", "A">>, <<"B">> },
     own_first : BOOLEAN]

ShadowSrc(a) ==
    LET own == "namespace r { class P { int w; } }\n"
        directives == Concat([n \in 1..Len(a.imports) |-> "#import <" \o a.imports[n] \o ">\n"])
    IN  (IF a.own_first THEN own \o directives ELSE directives \o own) \o "P u; u.get();"

\* roots made of a declaration (or none) and one import directive
FrameParams == [decl : {"", "int k;\n", "int v;\n"}, file : {"A", "lib.z", "U", "S"}]

FrameSrc(a) == a.decl \o "#import <" \o a.file \o ">\n"

\* statements written once in a method or operator body and once outside
BodyStmts == {"a + b ;", "a . norm ( ) ;", "m :: g ;", "a ++ ;", "-- a ;", "a += b . x ;"}

BodyParams == [stmt : BodyStmts, in_operator : BOOLEAN, ns : {"", "geo"}]

\* the head of the member function the statement is written in
BodyHead(a) == IF a.in_operator THEN "int operator+(K o){ " ELSE "int f(){ "

BodySrc(a) ==
    "Vec a ; "
    \o (IF a.ns = "" THEN "" ELSE "namespace " \o a.ns \o " { ")
    \o "class K { " \o BodyHead(a) \o a.stmt \o " } }"
    \o (IF a.ns = "" THEN "" ELSE " }")
    \o " " \o a.stmt

\* roots with bytes outside ASCII, in an identifier and in a literal
NonAsciiRoots == { "int Ã©;", "char *s = \"Ã©\";" }

\* roots whose import payload meets a token that is neither an identifier
\* nor a symbol before the closing angle bracket
BadPayloadRoots ==
    { "# import < A 1 >", "#import <A \"s\" >", "#import <A\n>", "#import <A",
      "#import <A /* c */ >", "#import <1>" }

\* roots with malformed syntax and no import
MalformedRoots ==
    { "class P {", "class P { int f(", "class P { int f() {", "class P { int operator + (",
      "namespace a {", "namespace a { namespace b {", "namespace a { namespace b { }",
      "#", "class", "namespace", "# import", "Point p; p.f(", "Point p; p +", "Point p; ++" }

\* ------------------------------------------------------------------------
\* The compile as a state machine
\* ------------------------------------------------------------------------

VARIABLES
    scn,        \* the source text compiled: [kind, src, a], a its parameters
    status,     \* "start", "running", "done" (output returned) or "panic" (aborted)
    stack,      \* the active compile_with_context calls, the innermost last
    output,     \* Some(final_code) once compile has returned, else None
    lowered,    \* the token stream the lowering pass of the root file returned
    reads,      \* the names passed to read_to_string, in order
    compiled,   \* [file, text] of every import compiled, in order of return
    lexed,      \* the Vecs the calls of tokenize on its own returned, in order
    printed     \* the texts the calls of detokenize on its own returned, in order

vars == << scn, status, stack, output, lowered, reads, compiled, lexed, printed >>

\* the entry of compile_with_context: tokenize and the first pass; own is
\* the set of short names this first pass writes and seen the set of those
\* the imports resolved so far in this call have written, at any depth
\* (both kept for the registry properties)
NewFrame(file, src, known_classes) ==
    Only({ [file |-> file, tokens |-> tokens, i |-> 0, end_of_import |-> 0,
            known |-> FirstPass(tokens, known_classes),
            own |-> DOMAIN FirstPass(tokens, EmptyMap), seen |-> {}]
           : tokens \in { tokenize(src) } })

Top == stack[Len(stack)]

\* the state before compile is called
Idle ==
    /\ status = "start"
    /\ stack = <<>>
    /\ output = None
    /\ lowered = <<>>
    /\ reads = <<>>
    /\ compiled = <<>>
    /\ lexed = <<>>
    /\ printed = <<>>

\* the roots of the import, payload and malformed-syntax families only
ImportInit ==
    /\ \/ \E l \in ImportLists : scn = [kind |-> "import", src |-> ImportSrc(l), a |-> l]
       \/ \E r \in BadPayloadRoots : scn = [kind |-> "badpayload", src |-> r, a |-> <<>>]
       \/ \E r \in MalformedRoots : scn = [kind |-> "malformed", src |-> r, a |-> <<>>]
    /\ Idle

Init ==
    /\ \/ \E a \in EmitParams : scn = [kind |-> "emit", src |-> EmitSrc(a), a |-> a]
       \/ scn = [kind |-> "samename", src |-> SameNameSrc, a |-> <<>>]
       \/ \E pre \in NamespacePre :
              scn = [kind |-> "namespace", src |-> NamespaceSrc(pre), a |-> pre]
       \/ \E a \in MethodParams : scn = [kind |-> "method", src |-> MethodSrc(a), a |-> a]
       \/ \E a \in BinaryParams : scn = [kind |-> "binary", src |-> BinarySrc(a), a |-> a]
       \/ \E l \in ImportLists : scn = [kind |-> "import", src |-> ImportSrc(l), a |-> l]
       \/ \E r \in BadPayloadRoots : scn = [kind |-> "badpayload", src |-> r, a |-> <<>>]
       \/ \E r \in MalformedRoots : scn = [kind |-> "malformed", src |-> r, a |-> <<>>]
       \/ \E a \in ShadowParams : scn = [kind |-> "shadow", src |-> ShadowSrc(a), a |-> a]
       \/ \E a \in FrameParams : scn = [kind |-> "frame", src |-> FrameSrc(a), a |-> a]
       \/ \E a \in BodyParams : scn = [kind |-> "body", src |-> BodySrc(a), a |-> a]
       \/ \E r \in NonAsciiRoots : scn = [kind |-> "bytes", src |-> r, a |-> <<>>]
       \/ \E r \in MentionRoots : scn = [kind |-> "mention", src |-> r, a |-> <<>>]
       \/ \E b \in FieldBodies : scn = [kind |-> "fields", src |-> FieldSrc(b), a |-> b]
       \/ \E a \in RedeclParams : scn = [kind |-> "redecl", src |-> RedeclSrc(a), a |-> a]
       \/ \E a \in OverloadParams :
              scn = [kind |-> "overload", src |-> OverloadSrc(a), a |-> a]
       \/ \E a \in SignatureParams :
              scn = [kind |-> "signature", src |-> SignatureSrc(a), a |-> a]
    /\ Idle

\* compile(src): compile_with_context(src, &mut HashMap::new()); the call
\* panics when tokenize does
Compile ==
    /\ status = "start"
    /\ IF tokenize_run(scn.src).ok
       THEN /\ status' = "running"
            /\ stack' = << NewFrame("", scn.src, EmptyMap) >>
       ELSE /\ status' = "panic"
            /\ stack' = << >>
    /\ UNCHANGED << scn, output, lowered, reads, compiled, lexed, printed >>

\* the import loop at a position that starts no directive: i += 1
ImportSkip ==
    /\ status = "running"
    /\ Top.i < Len(Top.tokens)
    /\ ~IsImportDirective(Top.tokens, Top.i)
    /\ stack' = [stack EXCEPT ![Len(stack)].i = Top.i + 1]
    /\ UNCHANGED << scn, status, output, lowered, reads, compiled, lexed, printed >>

\* the import loop at `# import <`, the file is read: the importer stands
\* at i + 3 and waits, the imported text is compiled on the same registry
ImportCall ==
    /\ status = "running"
    /\ Top.i < Len(Top.tokens)
    /\ IsImportDirective(Top.tokens, Top.i)
    /\ Len(stack) < MaxDepth
    /\ LET sc == ScanFilename(Top.tokens, Top.i + 3, "")
           file_content == read_to_string(sc.filename)
       IN  /\ file_content.some
           /\ tokenize_run(file_content.v).ok
           /\ stack' = Append([stack EXCEPT ![Len(stack)].i = Top.i + 3,
                                            ![Len(stack)].end_of_import = sc.end_of_import],
                              NewFrame(sc.filename, file_content.v, Top.known))
           /\ reads' = Append(reads, sc.filename)
    /\ UNCHANGED << scn, status, output, lowered, compiled, lexed, printed >>

\* the import loop at `# import <`, the file cannot be read, or it is read
\* and the tokenize of its compile panics: panic
ImportPanic ==
    /\ status = "running"
    /\ Top.i < Len(Top.tokens)
    /\ IsImportDirective(Top.tokens, Top.i)
    /\ LET sc == ScanFilename(Top.tokens, Top.i + 3, "")
           file_content == read_to_string(sc.filename)
       IN  /\ IF file_content.some THEN ~tokenize_run(file_content.v).ok ELSE TRUE
           /\ reads' = Append(reads, sc.filename)
    /\ status' = "panic"
    /\ stack' = <<>>
    /\ UNCHANGED << scn, output, lowered, compiled, lexed, printed >>

\* the passes after the import loop panic (the namespace slice)
FinishPanic ==
    /\ status = "running"
    /\ Top.i >= Len(Top.tokens)
    /\ \E fin \in { FinishCompile(Top.tokens, Top.known) } : ~fin.ok
    /\ status' = "panic"
    /\ stack' = <<>>
    /\ UNCHANGED << scn, output, lowered, reads, compiled, lexed, printed >>

\* an imported file returns its text: the importer splices it, re-lexed,
\* over the directive and goes on at the position it stood at
ImportReturn ==
    /\ status = "running"
    /\ Len(stack) > 1
    /\ Top.i >= Len(Top.tokens)
    /\ \E fin \in { FinishCompile(Top.tokens, Top.known) } :
       LET n == Len(stack) - 1
           importer == stack[n]
       IN  /\ fin.ok
           /\ stack' = [SubSeq(stack, 1, n) EXCEPT
                  ![n].tokens = Splice(importer.tokens, importer.i - 3,
                                       importer.end_of_import, tokenize(fin.text)),
                  ![n].known = WriteThrough(importer.known, Top.known),
                  ![n].seen = importer.seen \cup Top.seen \cup Top.own]
           /\ compiled' = Append(compiled, [file |-> Top.file, text |-> fin.text])
    /\ UNCHANGED << scn, status, output, lowered, reads, lexed, printed >>

\* the root file returns the output of compile
CompileReturn ==
    /\ status = "running"
    /\ Len(stack) = 1
    /\ Top.i >= Len(Top.tokens)
    /\ \E fin \in { FinishCompile(Top.tokens, Top.known) } :
           /\ fin.ok
           /\ output' = Some(fin.text)
           /\ lowered' = fin.lowered
    /\ status' = "done"
    /\ stack' = <<>>
    /\ UNCHANGED << scn, reads, compiled, lexed, printed >>

Next ==
    \/ Compile
    \/ ImportSkip
    \/ ImportCall
    \/ ImportPanic
    \/ FinishPanic
    \/ ImportReturn
    \/ CompileReturn

Spec == Init /\ [][Next]_vars

\* the compile is one sequential program: a step that can be taken is taken
ImportFairSpec == ImportInit /\ [][Next]_vars /\ WF_vars(Next)

\* ------------------------------------------------------------------------
\* tokenizer.rs called on its own: a text lexed, printed, lexed again, ...
\* ------------------------------------------------------------------------

\* the calls of tokenize followed on one text
MaxRounds == 2

\* the longest text lexed, in atoms
MaxAtoms == 3

\* the pieces the texts are put together from
LexAtoms == {"a", "1", "-", ">", "<", "=", ".", ";", "(", "\"s\"", "/* c */", "// c\n"}

RECURSIVE AtomLists(_)
AtomLists(n) ==
    IF n = 0 THEN { <<>> }
    ELSE AtomLists(n - 1) \cup { l \o << x >> : l \in AtomLists(n - 1), x \in LexAtoms }

\* the atoms written one after the other, with sep between them
LexParams == [atoms : AtomLists(MaxAtoms), sep : {"", " "}]

LexSrc(a) == Join(a.atoms, a.sep)

\* texts spaced the way the printer is meant to space them
CanonicalTexts ==
    { "int main() { return 0; }", "obj.member", "func(arg, 42)", "self.f = 1",
      "x = y;", "a[1]", "p->q" }

\* unterminated literals and comments, a backslash as the last character
\* of a literal, bytes outside ASCII
HardTexts ==
    { "\"abc", "'a", "/* abc", "/*", "\"ab\\", "'\\", "\"a\\\"", "0x", "1e+", ".",
      "Ã©", "x = Ã©;", "\"Ã©\"", "'Ã©", "// Ã©", "/* Ã© */", "/* Ã©", "\"\\Ã©", "Âª", "Âª = 1",
      "Â©", "aÃ©" }

\* token vectors built by the caller
TokenLists ==
    { << Identifier("a"), Symbol("="), Identifier("b"), Symbol("+"), Number("1") >>,
      << Symbol("#"), Identifier("include"), Symbol("<"), Identifier("stdio"), Symbol("."),
         Identifier("h"), Symbol(">") >>,
      << Identifier("obj"), Symbol("."), Identifier("member") >>,
      << Identifier("func"), Symbol("("), Identifier("arg"), Symbol(","), Number("42"),
         Symbol(")") >>,
      << Identifier("self"), Symbol("."), Identifier("f"), Symbol("="), Number("1") >>,
      << Identifier("a"), Symbol("="), Identifier("b"), Symbol("=="), Identifier("c") >>,
      << Identifier("a"), Symbol("="), Identifier("b"), Symbol("/"), Number("2") >>,
      << Symbol("#"), Identifier("define"), Identifier("N"), Number("1") >> }

\* the tokens the pairs printed are made of: the ten symbols of grouping,
\* member access and separation, and one token of each other sort
PairTokens ==
    { Symbol(x) : x \in {"(", ")", "[", "]", ".", "->", "<", ">", ";", ","} }
    \cup { Identifier("a"), Number("1"), Symbol("+"), Symbol("{"), Tok("StringLit", "\"s\"") }

\* a text about to be lexed, or a token vector about to be printed
LexInit ==
    /\ stack = <<>>
    /\ output = None
    /\ lowered = <<>>
    /\ reads = <<>>
    /\ compiled = <<>>
    /\ printed = <<>>
    /\ \/ /\ \/ \E a \in LexParams : scn = [kind |-> "lex", src |-> LexSrc(a), a |-> a]
             \/ \E x \in CanonicalTexts : scn = [kind |-> "canonical", src |-> x, a |-> <<>>]
             \/ \E x \in HardTexts : scn = [kind |-> "hard", src |-> x, a |-> <<>>]
          /\ status = "start"
          /\ lexed = <<>>
       \/ /\ \/ \E t \in TokenLists : scn = [kind |-> "tokens", src |-> "", a |-> t]
             \/ \E t, u \in PairTokens : scn = [kind |-> "pair", src |-> "", a |-> << t, u >>]
          /\ status = "running"
          /\ lexed = << scn.a >>

\* the text the next call of tokenize is handed: the source, then what the
\* printer returned last
LexInput == IF Len(printed) = 0 THEN scn.src ELSE printed[Len(printed)]

\* tokenize(text): the Vec is returned, or the call panics
Tokenize ==
    /\ status \in {"start", "running"}
    /\ Len(lexed) = Len(printed)
    /\ Len(lexed) < MaxRounds
    /\ \E run \in { tokenize_run(LexInput) } :
           IF run.ok
           THEN /\ lexed' = Append(lexed, run.tokens)
                /\ status' = "running"
           ELSE /\ lexed' = lexed
                /\ status' = "panic"
    /\ UNCHANGED << scn, stack, output, lowered, reads, compiled, printed >>

\* detokenize(&tokens) on the Vec returned last
Detokenize ==
    /\ status = "running"
    /\ Len(printed) < Len(lexed)
    /\ printed' = Append(printed, detokenize(lexed[Len(lexed)]))
    /\ UNCHANGED << scn, status, stack, output, lowered, reads, compiled, lexed >>

LexNext ==
    \/ Tokenize
    \/ Detokenize

LexSpec == LexInit /\ [][LexNext]_vars

\* ------------------------------------------------------------------------
\* The call-site lowering pass on its own: a token stream lowered once
\* ------------------------------------------------------------------------

\* the longest statement lowered, in atoms
MaxStmt == 5

\* the pieces the statements are put together from
StmtAtoms == {"a", "n", "::", "+", "++", ". m ( n )"}

RECURSIVE StmtLists(_)
StmtLists(n) ==
    IF n = 0 THEN { <<>> }
    ELSE StmtLists(n - 1) \cup { l \o << x >> : l \in StmtLists(n - 1), x \in StmtAtoms }

\* the tokens of an atom
AtomTokens(x) ==
    CASE x \in {"a", "n"} -> << Identifier(x) >>
      [] x \in {"::", "+", "++"} -> << Symbol(x) >>
      [] x = ". m ( n )" -> << Symbol("."), Identifier("m"), Symbol("("), Identifier("n"),
                              Symbol(")") >>

RECURSIVE StmtTokens(_)
StmtTokens(atoms) ==
    IF Len(atoms) = 0 THEN << >> ELSE AtomTokens(atoms[1]) \o StmtTokens(Tail(atoms))

\* the token vector the pass is handed: what tokenize returns for the text
\* `type_ a ; statement`
LowerTokens(a) ==
    << Identifier(a.type_), Identifier("a"), Symbol(";") >> \o StmtTokens(a.atoms) \o << Eof >>

\* the declaration of a, of a registered class (T) or of a type that is
\* not registered (int), then the statement
LowerInit ==
    /\ \E a \in [type_ : {"T", "int"}, atoms : StmtLists(MaxStmt)] :
           scn = [kind |-> "lower", src |-> "", a |-> a]
    /\ Idle

\* tokens = parse_function_calls_with_operators(tokens, known_classes.clone()),
\* the registry holding the class T of the namespace geo
LowerPass ==
    /\ status = "start"
    /\ lowered' = parse_function_calls_with_operators(LowerTokens(scn.a),
                                                      MapInsert(EmptyMap, "T", "geo_T"))
    /\ status' = "done"
    /\ UNCHANGED << scn, stack, output, reads, compiled, lexed, printed >>

LowerSpec == LowerInit /\ [][LowerPass]_vars

TypeOK ==
    /\ status \in {"start", "running", "done", "panic"}
    /\ Len(stack) <= MaxDepth
    /\ (status = "done") = output.some

\* ------------------------------------------------------------------------
\* Properties: helpers
\* ------------------------------------------------------------------------

Range(seq) == { seq[n] : n \in 1..Len(seq) }

\* all but the last entry
Front(seq) == SubSeq(seq, 1, Len(seq) - 1)

\* the tokens of a text that carry text: neither Newline nor Eof
Words(text) == SelectSeq(tokenize(text), LAMBDA t : t.k \notin {"Newline", "Eof"})

\* sub stands in seq at position n, entry for entry
OccursAt(seq, sub, n) ==
    /\ n + Len(sub) - 1 <= Len(seq)
    /\ SubSeq(seq, n, n + Len(sub) - 1) = sub

Contains(seq, sub) == \E n \in 1..Len(seq) : OccursAt(seq, sub, n)

Occurrences(seq, sub) == Cardinality({ n \in 1..Len(seq) : OccursAt(seq, sub, n) })

Count(seq, x) == Cardinality({ n \in 1..Len(seq) : seq[n] = x })

\* the token a one-token text is lexed to
WordTok(text) ==
    IF text \in {"x", "p", "n", "a", "b"} THEN Identifier(text)
    ELSE IF text = "1" THEN Number(text)
    ELSE Symbol(text)

WordToks(texts) == [n \in 1..Len(texts) |-> WordTok(texts[n])]

\* the canonical name of a class of a namespace ("" for none)
Canonical(ns, name) == IF ns = "" THEN name ELSE ns \o "_" \o name

\* ------------------------------------------------------------------------
\* C1: the text a class block is replaced by
\* ------------------------------------------------------------------------

ExpectedMethods(full) ==
    << "int " \o full \o "_getX(" \o full \o " self){ return self.x ; }",
       "int " \o full \o "_sum(" \o full \o " self, int a, int b){ return a ; }" >>

ExpectedOperators(full) ==
    << "Point " \o full \o "_operator_add(" \o full \o " self, Point other){ return other ; }",
       "int " \o full \o "_operator_eq(" \o full \o " self, Point other){ return 1 ; }" >>

\* one typedef struct with the fields, then the methods, then the operators
ExpectedClassText(full, nf, nm, no) ==
    "typedef struct { " \o Concat(Take(FieldDecls, nf)) \o " } " \o full \o "; "
    \o Concat(Take(ExpectedMethods(full), nm))
    \o Concat(Take(ExpectedOperators(full), no))

\* C1: compiling a class block with nf fields, nm methods and no operator
\* overloads returns, token for token, one typedef struct that lists exactly
\* the nf fields in declaration order and is named by the canonical name of
\* the class, then one function per method, then one function per operator
\* overload, in declaration order; two class blocks of one short name in two
\* namespaces are each replaced by their own struct.
C1_ClassBlockReplaced ==
    /\ (status = "done" /\ scn.kind = "emit") =>
           Words(output.v)
               = Words(ExpectedClassText(Canonical(scn.a.ns, "Point"),
                                         scn.a.nf, scn.a.nm, scn.a.no))
    /\ (status = "done" /\ scn.kind = "samename") =>
           Words(output.v)
               = Words("typedef struct { int x; } a_P; typedef struct { int y; } b_P;")

\* ------------------------------------------------------------------------
\* C2: the lowering of a method call
\* ------------------------------------------------------------------------

\* the opening minus the closing parentheses among the first k words
ParenDepth(texts, k) ==
    Cardinality({ n \in 1..k : texts[n] = "(" })
    - Cardinality({ n \in 1..k : texts[n] = ")" })

\* k is the parenthesis that closes the one opened before texts
ClosesAt(texts, k) ==
    /\ ParenDepth(texts, k) = -1
    /\ \A j \in 1..(k - 1) : ParenDepth(texts, j) >= 0

HasMatch(texts) == \E k \in 1..Len(texts) : ClosesAt(texts, k)

MatchIndex(texts) == CHOOSE k \in 1..Len(texts) : ClosesAt(texts, k)

\* what follows `p . getX (` in the source of a method scenario
MethodRest(a) == a.args \o << ")", ";" >>

\* the stream up to and with the closing parenthesis of the lowered call
ExpectedMethodCall(a) ==
    LET rest == MethodRest(a)
        k == MatchIndex(rest)
    IN  Front(tokenize(MethodPre(a)))
        \o << Identifier(Canonical(a.ns, "Point") \o "_getX"), Symbol("("), Identifier("p") >>
        \o (IF k > 1 THEN << Symbol(",") >> \o WordToks(SubSeq(rest, 1, k - 1)) ELSE << >>)
        \o << Symbol(")") >>

\* C2: with `Point p ;` declared, before the call or after it,
\* `p . getX ( args )` is lowered to `C_getX ( p , args )`, C the full name
\* the type of p resolves to: args are the tokens up to the matching
\* closing parenthesis, copied unchanged (a call on p inside them
\* included), the comma stands there exactly when args is not empty, the
\* tokens before the call are untouched, and so are the tokens after it
\* when none of them is a use of p.
C2_MethodCallLowered ==
    (status = "done" /\ scn.kind = "method" /\ HasMatch(MethodRest(scn.a))) =>
        LET rest == MethodRest(scn.a)
            after == SubSeq(rest, MatchIndex(rest) + 1, Len(rest))
            expected == ExpectedMethodCall(scn.a)
        IN  /\ Len(lowered) >= Len(expected)
            /\ SubSeq(lowered, 1, Len(expected)) = expected
            /\ "p" \notin Range(after) =>
                   SubSeq(lowered, Len(expected) + 1, Len(lowered))
                       = WordToks(after)
                         \o (IF scn.a.late
                             THEN << Identifier("Point"), Identifier("p"), Symbol(";") >>
                             ELSE << >>)
                         \o << Eof >>

\* a call with a nested argument list on a variable of a namespaced class
C2_Witness ==
    /\ status = "done"
    /\ scn.kind = "method"
    /\ scn.a.ns = "geo"
    /\ scn.a.late
    /\ scn.a.args = << "(", "x", ")" >>
    /\ Contains(lowered, << Identifier("geo_Point_getX"), Symbol("("), Identifier("p"),
                            Symbol(","), Symbol("("), Identifier("x"), Symbol(")"),
                            Symbol(")"), Symbol(";") >>)

\* ------------------------------------------------------------------------
\* C3: the lowering of a binary operator
\* ------------------------------------------------------------------------

\* the fourteen binary operators and their suffixes
OperatorSuffix ==
    [op \in {"+", "-", "*", "/", "==", "!=", "<", ">", "<=", ">=", "+=", "-=", "*=", "/="} |->
        CASE op = "+" -> "add" [] op = "-" -> "sub" [] op = "*" -> "mul" [] op = "/" -> "div"
          [] op = "==" -> "eq" [] op = "!=" -> "neq" [] op = "<" -> "lt" [] op = ">" -> "gt"
          [] op = "<=" -> "le" [] op = ">=" -> "ge" [] op = "+=" -> "add_assign"
          [] op = "-=" -> "sub_assign" [] op = "*=" -> "mul_assign"
          [] op = "/=" -> "div_assign"]

\* C3: with `Vec a ;` declared, the three tokens `a OP t` are lowered to
\* `C_operator_<name> ( a , t )` for each of the fourteen binary operators,
\* C the full name the type of a resolves to and t the one token after the
\* operator, whatever it is; the tokens before and after (`. x ;`) are
\* untouched.
C3_BinaryOperatorLowered ==
    (status = "done" /\ scn.kind = "binary") =>
        lowered = Front(tokenize(DeclText(scn.a.ns, "Vec", "a")))
                  \o << Identifier(Canonical(scn.a.ns, "Vec") \o "_operator_"
                                   \o OperatorSuffix[scn.a.op]),
                        Symbol("("), Identifier("a"), Symbol(","), WordTok(scn.a.rhs),
                        Symbol(")") >>
                  \o << Symbol("."), Identifier("x"), Symbol(";"), Eof >>

\* `a <= a . x` on a variable of a namespaced class
C3_Witness ==
    /\ status = "done"
    /\ scn.kind = "binary"
    /\ scn.a = [ns |-> "geo", op |-> "<=", rhs |-> "a"]
    /\ Contains(lowered, << Identifier("geo_Vec_operator_le"), Symbol("("), Identifier("a"),
                            Symbol(","), Identifier("a"), Symbol(")"), Symbol(".") >>)

\* ------------------------------------------------------------------------
\* C4: the names generated for a class of a namespace
\* ------------------------------------------------------------------------

\* C4: for the class Point of `namespace geo { ... }`, whatever stands
\* before it in the namespace, the output has no namespace wrapper, the
\* typedef is named geo_Point, the method is emitted as geo_Point_getX with
\* a self of type geo_Point, and the call on `Point p` is geo_Point_getX(p).
C4_NamespacePrefix ==
    (status = "done" /\ scn.kind = "namespace") =>
        LET out == Words(output.v) IN
        /\ Identifier("namespace") \notin Range(out)
        /\ Identifier("Point_getX") \notin Range(out)
        /\ Contains(out, << Symbol("}"), Identifier("geo_Point"), Symbol(";") >>)
        /\ Contains(out, << Identifier("geo_Point_getX"), Symbol("("),
                            Identifier("geo_Point"), Identifier("self") >>)
        /\ Contains(out, << Identifier("geo_Point_getX"), Symbol("("), Identifier("p"),
                            Symbol(")") >>)

\* ------------------------------------------------------------------------
\* C5 to C10: the imports of the working directory, written down by hand
\* ------------------------------------------------------------------------

\* the files each file names in its import directives, in text order
ImportGraph ==
    [f \in {"A", "lib.z", "B", "D", "R", "X", "Y", "N", "U", "S", "E", "V", "M"} |->
        CASE f = "B" -> << "A" >>
          [] f = "D" -> << "M" >>
          [] f = "R" -> << "R" >>
          [] f = "X" -> << "Y" >>
          [] f = "Y" -> << "X" >>
          [] OTHER -> << >>]

\* the files that can be read
Readable == {"A", "lib.z", "B", "D", "R", "X", "Y", "N", "U", "S", "E", "V"}

\* the files reached from the files of S in at most n steps
RECURSIVE ReachFrom(_, _)
ReachFrom(S, n) ==
    IF n = 0 THEN S
    ELSE ReachFrom(S \cup UNION { Range(ImportGraph[f]) : f \in S }, n - 1)

OnCycle(f) == f \in ReachFrom(Range(ImportGraph[f]), Cardinality(DOMAIN ImportGraph))

\* the import graph reachable from the root has a cycle
CycleReachable ==
    /\ scn.kind = "import"
    /\ \E f \in ReachFrom(Range(scn.a), Cardinality(DOMAIN ImportGraph)) : OnCycle(f)

\* the files of an acyclic import list in depth-first, left-to-right order
RECURSIVE Preorder(_)
Preorder(imports) ==
    IF Len(imports) = 0 THEN << >>
    ELSE << imports[1] >> \o Preorder(ImportGraph[imports[1]]) \o Preorder(Tail(imports))

\* C5: the imports are resolved in left-to-right order on one registry.
\* In every active call, every short name registered by the imports that
\* call has resolved so far, at any depth, is in the registry the call
\* holds, which is the registry handed to its next import (an imported
\* compile starts from all its importer holds) and to its lowering pass:
\* when a compile with imports returns, the files were read in depth-first
\* left-to-right order and the call on `P u`, P declared by imports only,
\* is lowered with the full name an import registered.
C5_SharedRegistry ==
    /\ \A n \in 1..Len(stack) : stack[n].seen \subseteq DOMAIN stack[n].known
    /\ \A n \in 2..Len(stack) :
           \A x \in DOMAIN stack[n - 1].known :
               x \in DOMAIN stack[n].known
    /\ (status = "done" /\ scn.kind = "import") =>
           /\ reads = Preorder(scn.a)
           /\ Identifier("P_get") \notin Range(lowered)
           /\ \E full \in {"a_P", "b_P"} :
                  Contains(lowered, << Identifier(full \o "_get"), Symbol("("),
                                       Identifier("u"), Symbol(")") >>)

\* the second import is compiled on a registry that holds the name the
\* first one registered
C5_Witness ==
    /\ scn.kind = "import"
    /\ scn.a = << "A", "lib.z" >>
    /\ Len(stack) = 2
    /\ "P" \in stack[1].seen
    /\ Top.file = "lib.z"
    /\ "P" \in DOMAIN Top.known

\* C6: imports are neither cached nor deduplicated. When a compile with
\* imports returns, every file was compiled as many times as it was
\* reached, and the output holds that many complete copies of the text each
\* of these compiles returned.
C6_NoDeduplication ==
    (status = "done" /\ scn.kind = "import") =>
        /\ Len(compiled) = Len(reads)
        /\ \A n \in 1..Len(compiled) :
               /\ Cardinality({ m \in 1..Len(compiled) : compiled[m].file = compiled[n].file })
                      = Count(reads, compiled[n].file)
               /\ Occurrences(Words(output.v), Words(compiled[n].text))
                      >= Count(reads, compiled[n].file)

\* A is reached directly and through B: two reads, two copies of its text
C6_Witness ==
    /\ status = "done"
    /\ scn.kind = "import"
    /\ scn.a = << "A", "B" >>
    /\ Count(reads, "A") = 2
    /\ Occurrences(Words(output.v),
                   Words("typedef struct { int v; } a_P; int a_P_get(a_P self){ return self.v ; }"))
           = 2

\* C7: once an import target that cannot be read has been reached, at any
\* depth, the compile has aborted: no call is active and there is no output.
C7_UnreadableAborts ==
    (\E n \in 1..Len(reads) : reads[n] \notin Readable) =>
        /\ status = "panic"
        /\ stack = << >>
        /\ output = None

\* the abort comes after an earlier import was compiled and spliced
C7_Witness ==
    /\ status = "panic"
    /\ reads = << "A", "M" >>
    /\ Len(compiled) = 1
    /\ compiled[1].file = "A"

\* C8: a payload that meets a token that is neither an identifier nor a
\* symbol before the closing `>` is no directive: no file is read, the
\* compile does not abort, and the output is the source, token for token.
C8_BadPayloadIgnored ==
    scn.kind = "badpayload" =>
        /\ reads = << >>
        /\ status # "panic"
        /\ status = "done" => tokenize(output.v) = tokenize(scn.src)

\* C9: a compile aborts only on an import target that cannot be read.
C9_OnlyUnreadableAborts ==
    status = "panic" => \E n \in 1..Len(reads) : reads[n] \notin Readable

LexKinds == {"lex", "canonical", "hard"}

\* C11: for every source text x, printing the tokens of x, lexing the
\* printed text again and printing once more gives the same text:
\* detokenize(tokenize(detokenize(tokenize(x)))) = detokenize(tokenize(x)).
C11_PrintIdempotent ==
    (scn.kind \in LexKinds /\ Len(printed) >= 2) => printed[2] = printed[1]

\* C12: for every source text x (none of the texts lexed has a class, a
\* namespace or an import), lexing the printed text gives the tokens of x
\* again, kinds and texts alike, comments and newlines included:
\* tokenize(detokenize(tokenize(x))) = tokenize(x).
C12_PrintKeepsTokens ==
    (scn.kind \in LexKinds /\ Len(lexed) >= 2) => lexed[2] = lexed[1]

\* C13: for every input text, unterminated literals and comments, a
\* trailing backslash and bytes outside ASCII included, tokenize returns
\* without failing and its result holds exactly one Eof, the last token.
C13_TokenizeTotal ==
    /\ scn.kind \in LexKinds => status # "panic"
    /\ scn.kind \in LexKinds =>
           \A n \in 1..Len(lexed) :
               /\ Len(lexed[n]) >= 1
               /\ lexed[n][Len(lexed[n])] = Eof
               /\ Count(lexed[n], Eof) = 1

\* C14: a text that is spaced canonically is printed as it was written:
\* detokenize(tokenize("int main() { return 0; }")) is that text.
C14_CanonicalTextKept ==
    (scn.kind = "canonical" /\ Len(printed) >= 1) => printed[1] = scn.src

\* C15: a binary operator between two operands is printed with one space
\* on each side, also before a number or an identifier: the tokens
\* a, =, b, +, 1 print as `a = b + 1`.
C15_BinaryOperatorSpaced ==
    (/\ scn.kind = "tokens"
     /\ scn.a = << Identifier("a"), Symbol("="), Identifier("b"), Symbol("+"), Number("1") >>
     /\ Len(printed) >= 1)
        => printed[1] = "a = b + 1"

\* C16: a preprocessor directive is printed with no space after `#`, one
\* space before `<` and none inside the angle brackets: the tokens
\* #, include, <, stdio, ., h, > print as `#include <stdio.h>`.
C16_DirectiveSpacing ==
    (/\ scn.kind = "tokens"
     /\ Len(scn.a) = 7
     /\ scn.a[1] = Symbol("#")
     /\ Len(printed) >= 1)
        => printed[1] = "#include <stdio.h>"

\* ------------------------------------------------------------------------
\* C17 and C18: the registry scan before the imports
\* ------------------------------------------------------------------------

\* C17: in the registry scan before the imports the namespace stays active
\* until the brace that closes its block: every class declared inside
\* `namespace geo { ... }`, also after a class or a function whose body has
\* closed, is registered as geo_Name, and that is the name the scan after
\* the imports, and so the emitter, gives the class.
C17_NamespaceKept ==
    (scn.kind = "namespace" /\ status = "running") =>
        LET known == stack[1].known
            classes == ParseClasses(stack[1].tokens)
        IN  /\ "Point" \in DOMAIN known
            /\ \A x \in DOMAIN known : known[x] = "geo_" \o x
            /\ \A n \in 1..Len(classes) :
                   FullName(classes[n].namespace, classes[n].name) = known[classes[n].name]

\* the full name the class P has after the imports compiled so far: that
\* of the file that declared it last, r_P of the root before any did
RECURSIVE LastMapping(_)
LastMapping(done) ==
    IF Len(done) = 0 THEN "r_P"
    ELSE IF done[Len(done)].file = "A" THEN "a_P"
    ELSE IF done[Len(done)].file = "lib.z" THEN "b_P"
    ELSE LastMapping(Front(done))

\* C18: the class names of a file are in the registry before its first
\* import is compiled, so a call that compiles an import holds the classes
\* of every file above it on the import chain. A short name written later
\* replaces the earlier mapping: between two imports the root, which
\* declares P itself, holds for P the full name of the import that
\* declared P last, and its lowering pass uses the mapping left by its
\* last import.
C18_RegistryOrder ==
    /\ \A n \in 1..Len(stack) :
           \A m \in 1..n : stack[m].own \subseteq DOMAIN stack[n].known
    /\ (scn.kind = "shadow" /\ Len(stack) = 1) =>
           stack[1].known["P"] = LastMapping(compiled)
    /\ (scn.kind = "shadow" /\ status = "done") =>
           /\ Contains(lowered, << Identifier(LastMapping(compiled) \o "_get"), Symbol("("),
                                   Identifier("u"), Symbol(")") >>)
           /\ Identifier("r_P_get") \notin Range(lowered)

\* the root declared P before its directives, the first import replaced the
\* mapping, the second one is being compiled on a registry that holds it
C18_Witness ==
    /\ scn.kind = "shadow"
    /\ scn.a.own_first
    /\ scn.a.imports = << "A", "lib.z" >>
    /\ Len(stack) = 1
    /\ Len(compiled) = 1
    /\ "P" \in stack[1].own
    /\ stack[1].known["P"] = "a_P"

\* ------------------------------------------------------------------------
\* C19 and C20: what the lowering pass rewrites
\* ------------------------------------------------------------------------

\* C19: the importer's later passes leave the text of a compiled import
\* alone: the output of a root made of a declaration and one directive is
\* the declaration followed by exactly the tokens of the text the import
\* was compiled to.
C19_ImportTextUntouched ==
    (scn.kind = "frame" /\ status = "done") =>
        Words(output.v) = Words(scn.a.decl) \o Words(compiled[Len(compiled)].text)

\* what a statement on `Vec a` is lowered to
LoweredStmt(stmt) ==
    CASE stmt = "a + b ;" -> "Vec_operator_add ( a , b ) ;"
      [] stmt = "a . norm ( ) ;" -> "Vec_norm ( a ) ;"
      [] stmt = "m :: g ;" -> "m_g ;"
      [] stmt = "a ++ ;" -> "Vec_operator_increment ( a ) ;"
      [] stmt = "-- a ;" -> "Vec_operator_decrement ( a ) ;"
      [] stmt = "a += b . x ;" -> "Vec_operator_add_assign ( a , b ) . x ;"

\* C20: the body of a method or of an operator overload is emitted as the
\* structural scan captured it, before the lowering pass: a statement
\* written in the body stands there token for token, not lowered, and the
\* same statement written after the class is lowered.
C20_BodiesNotLowered ==
    (scn.kind = "body" /\ status = "done") =>
        LET out == Words(output.v)
            raw == Words(scn.a.stmt)
            low == Words(LoweredStmt(scn.a.stmt))
        IN  /\ Contains(out, << Symbol("{") >> \o raw \o << Symbol("}") >>)
            /\ Occurrences(out, raw) = 1
            /\ Occurrences(out, low) = 1
            /\ Len(out) >= Len(low)
            /\ SubSeq(out, Len(out) - Len(low) + 1, Len(out)) = low

\* a method call in the body of an operator overload of a namespaced class
C20_Witness ==
    /\ status = "done"
    /\ scn.kind = "body"
    /\ scn.a = [stmt |-> "a . norm ( ) ;", in_operator |-> TRUE, ns |-> "geo"]
    /\ Contains(Words(output.v),
                Words("geo_K_operator_add(geo_K self, K o){ a . norm ( ) ; } Vec_norm(a);"))

\* ------------------------------------------------------------------------
\* C21 to C23: the text generated for a class block
\* ------------------------------------------------------------------------

\* the text each block of the source is due when it is emitted from the
\* entity built from that same block
OwnText(src) ==
    CASE src = SameNameSrc ->
             "typedef struct { int x; } a_P; typedef struct { int y; } b_P;"
      [] src = "class P ; class P { int x; }" ->
             "typedef struct { } P; ; typedef struct { int x; } P;"
      [] src = "class P ; namespace a { class P { int x; int get(){ return 1 ; } } }" ->
             "typedef struct { } P; ; typedef struct { int x; } a_P; "
             \o "int a_P_get(a_P self){ return 1 ; }"

\* C21: every `class Name` span is replaced by the text generated from the
\* entity built from that same span: of two blocks of one short name, in
\* two namespaces or a mention without a body before the definition, each
\* is emitted with its own prefix, fields and methods.
C21_SpanEmittedFromOwnEntity ==
    (status = "done" /\ scn.kind \in {"samename", "mention"}) =>
        Words(output.v) = Words(OwnText(scn.src))

\* the name of the function emitted for the member of a signature scenario
SignatureName(a) ==
    Canonical(a.ns, "Point")
    \o (IF a.sym = "" THEN "_getX" ELSE "_operator_" \o OperatorName(a.sym))

\* C22: the function emitted for a method or an operator overload has the
\* parameter list `FullName self` followed by the declared parameters in
\* order, each after one comma, with no empty entry: a member declared
\* without parameters is emitted with `( FullName self )`.
C22_SelfThenParams ==
    (status = "done" /\ scn.kind = "signature") =>
        LET full == Canonical(scn.a.ns, "Point")
            declared == Words(Concat([n \in 1..scn.a.np |-> ", " \o ParamDecls[n]]))
        IN  Contains(Words(output.v),
                     << Identifier(SignatureName(scn.a)), Symbol("("),
                        Identifier(full), Identifier("self") >>
                     \o declared \o << Symbol(")"), Symbol("{") >>)

\* the suffix the table gives an overloaded symbol
SymbolSuffix(sym) ==
    IF sym \in DOMAIN OperatorSuffix THEN OperatorSuffix[sym]
    ELSE IF sym = "++" THEN "increment"
    ELSE IF sym = "--" THEN "decrement"
    ELSE IF sym = "[]" THEN "index"
    ELSE "unknown_op"

\* C23: a member `ReturnType operator <symbol> ( params ) { body }` is
\* recorded as an operator overload and emitted as the function
\* FullName_operator_<suffix>, for each of the seventeen symbols of the
\* table, `[]` (suffix index) included, and with the suffix unknown_op for
\* any other symbol.
C23_OverloadEmitted ==
    (status = "done" /\ scn.kind = "overload") =>
        LET full == Canonical(scn.a.ns, "Point") IN
        Contains(Words(output.v),
                 << Identifier("int"),
                    Identifier(full \o "_operator_" \o SymbolSuffix(scn.a.sym)),
                    Symbol("("), Identifier(full), Identifier("self"), Symbol(","),
                    Identifier("int"), Identifier("a"), Symbol(")"), Symbol("{") >>)

\* ------------------------------------------------------------------------
\* C24 to C26: the rules of the lowering pass
\* ------------------------------------------------------------------------

\* the statement of a lowering scenario, lowered: the tokens between the
\* declaration and the Eof
LoweredRest == SubSeq(lowered, 4, Len(lowered) - 1)

\* C24: the lowering applies to every identifier of the variable table,
\* whether or not its type is a registered class: with `int a ;`, the
\* statements `a + n`, `a ++`, `++ a` and `a . m ( n )` are lowered to
\* `int_operator_add ( a , n )`, `int_operator_increment ( a )` (twice) and
\* `int_m ( a , n )`.
C24_UnregisteredTypeLowered ==
    (status = "done" /\ scn.kind = "lower" /\ scn.a.type_ = "int") =>
        /\ SubSeq(lowered, 1, 3) = Words("int a ;")
        /\ scn.a.atoms = << "a", "+", "n" >> =>
               LoweredRest = Words("int_operator_add ( a , n )")
        /\ scn.a.atoms = << "a", "++" >> =>
               LoweredRest = Words("int_operator_increment ( a )")
        /\ scn.a.atoms = << "++", "a" >> =>
               LoweredRest = Words("int_operator_increment ( a )")
        /\ scn.a.atoms = << "a", ". m ( n )" >> => LoweredRest = Words("int_m ( a , n )")

\* the method call on a variable of the type int, with an argument
C24_Witness ==
    /\ status = "done"
    /\ scn.kind = "lower"
    /\ scn.a = [type_ |-> "int", atoms |-> << "a", ". m ( n )" >>]
    /\ Contains(lowered, Words("int_m ( a , n )"))

\* the type the table gives a name: that of its first entry
RefTyped(variables, name) == \E n \in 1..Len(variables) : variables[n].name = name

RefType(variables, name) ==
    variables[CHOOSE n \in 1..Len(variables) :
                  /\ variables[n].name = name
                  /\ \A m \in 1..(n - 1) : variables[m].name # name].type_

\* the full name a declared type resolves to
RefFull(known, type_) == IF type_ \in DOMAIN known THEN known[type_] ELSE type_

\* the position of the parenthesis that closes the list open at k
RECURSIVE RefClose(_, _, _)
RefClose(tokens, k, depth) ==
    IF k > Len(tokens) THEN k
    ELSE IF tokens[k] = Symbol("(") THEN RefClose(tokens, k + 1, depth + 1)
    ELSE IF tokens[k] = Symbol(")")
    THEN IF depth = 1 THEN k ELSE RefClose(tokens, k + 1, depth - 1)
    ELSE RefClose(tokens, k + 1, depth)

RefIdent(tokens, k) == k <= Len(tokens) /\ tokens[k].k = "Identifier"

RefSym(tokens, k, S) == k <= Len(tokens) /\ tokens[k].k = "Symbol" /\ tokens[k].s \in S

RefCall(name, inner) == << Identifier(name), Symbol("(") >> \o inner \o << Symbol(")") >>

\* the rules of the scan at position k, tried in the order they are
\* specified in: [out, next]
RefStep(tokens, variables, known, k) ==
    LET t == tokens[k]
        typed == RefIdent(tokens, k) /\ RefTyped(variables, t.s)
    IN
    IF RefIdent(tokens, k) /\ RefSym(tokens, k + 1, {"::"}) /\ RefIdent(tokens, k + 2)
    THEN [out |-> << Identifier(t.s \o "_" \o tokens[k + 2].s) >>, next |-> k + 3]
    ELSE IF typed /\ RefSym(tokens, k + 1, DOMAIN OperatorSuffix) /\ k + 2 <= Len(tokens)
    THEN [out |-> RefCall(RefFull(known, RefType(variables, t.s)) \o "_operator_"
                              \o OperatorSuffix[tokens[k + 1].s],
                          << t, Symbol(","), tokens[k + 2] >>),
          next |-> k + 3]
    ELSE IF typed /\ RefSym(tokens, k + 1, {"++", "--"})
    THEN [out |-> RefCall(RefFull(known, RefType(variables, t.s)) \o "_operator_"
                              \o SymbolSuffix(tokens[k + 1].s),
                          << t >>),
          next |-> k + 2]
    ELSE IF typed /\ RefSym(tokens, k + 1, {"."}) /\ RefIdent(tokens, k + 2)
                  /\ RefSym(tokens, k + 3, {"("})
    THEN LET close == RefClose(tokens, k + 4, 1)
             args == SubSeq(tokens, k + 4, close - 1)
         IN  [out |-> RefCall(RefFull(known, RefType(variables, t.s)) \o "_"
                                  \o tokens[k + 2].s,
                              << t >> \o (IF Len(args) = 0 THEN << >>
                                          ELSE << Symbol(",") >> \o args)),
              next |-> close + 1]
    ELSE IF /\ RefSym(tokens, k, {"++", "--"})
            /\ RefIdent(tokens, k + 1)
            /\ RefTyped(variables, tokens[k + 1].s)
    THEN [out |-> RefCall(RefFull(known, RefType(variables, tokens[k + 1].s))
                              \o "_operator_" \o SymbolSuffix(t.s),
                          << tokens[k + 1] >>),
          next |-> k + 2]
    ELSE [out |-> << t >>, next |-> k + 1]

\* one scan from left to right: what a rule consumed is not looked at again
RECURSIVE RefLower(_, _, _, _)
RefLower(tokens, variables, known, k) ==
    IF k > Len(tokens) THEN << >>
    ELSE LET step == RefStep(tokens, variables, known, k) IN
         step.out \o RefLower(tokens, variables, known, step.next)

\* C25: for every token stream and its variable table, the lowering pass
\* returns what one scan from left to right returns that tries, at each
\* position, `ns :: ident`, then the forms of a typed variable (binary,
\* postfix, method call), then the prefix `++` / `--`, and else copies the
\* token, and that never looks again at a token a rule consumed.
C25_LoweringIsReferenceScan ==
    (status = "done" /\ scn.kind = "lower") =>
        lowered = RefLower(LowerTokens(scn.a), VariableScan(LowerTokens(scn.a)),
                           MapInsert(EmptyMap, "T", "geo_T"), 1)

\* the right operand of a binary operator is a typed variable followed by
\* `++`: it is consumed with the operator and `++` is copied
C25_Witness ==
    /\ status = "done"
    /\ scn.kind = "lower"
    /\ scn.a = [type_ |-> "T", atoms |-> << "a", "+", "a", "++" >>]
    /\ lowered = Words("T a ; geo_T_operator_add ( a , a ) ++") \o << Eof >>

\* the positions of the stream where `A :: B` stands on its own: an
\* identifier, `::`, an identifier, with no `::` right before or after
ScopeUses(tokens, A, B) ==
    { k \in 1..(Len(tokens) - 2) :
          /\ tokens[k] = Identifier(A)
          /\ tokens[k + 1] = Symbol("::")
          /\ tokens[k + 2] = Identifier(B)
          /\ k > 1 => tokens[k - 1] # Symbol("::")
          /\ k + 3 <= Len(tokens) => tokens[k + 3] # Symbol("::") }

\* C26: every `A :: B` of the stream the pass is handed (none of them
\* stands inside the argument list of a lowered method call) is in the
\* result as the one identifier A_B, whatever stands before it, also an
\* operator that is applied to a typed variable.
C26_ScopeFlattened ==
    (status = "done" /\ scn.kind = "lower") =>
        \A A \in {"a", "n"}, B \in {"a", "n"} :
            Count(lowered, Identifier(A \o "_" \o B))
                >= Cardinality(ScopeUses(LowerTokens(scn.a), A, B))

\* ------------------------------------------------------------------------
\* C27: the fields of the struct
\* ------------------------------------------------------------------------

\* the struct a class with these fields is due, token for token
StructWords(fields, full) == Words("typedef struct { " \o fields \o " } " \o full \o ";")

\* seq begins with sub
StartsWith(seq, sub) == OccursAt(seq, sub, 1)

\* C27: the fields of the struct are exactly the variable declarations at
\* the top level of the class body, in order: a declaration or a statement
\* shaped like one (`int tmp = 0 ;`, `return tmp ;`) in the body of a
\* method or of an operator overload is no field.
C27_FieldsAreTopLevel ==
    /\ (status = "done" /\ scn.kind = "fields") =>
           StartsWith(Words(output.v), StructWords("int x; int y;", "P"))
    /\ (status = "done" /\ scn.kind = "emit") =>
           StartsWith(Words(output.v),
                      StructWords(Concat(Take(FieldDecls, scn.a.nf)),
                                  Canonical(scn.a.ns, "Point")))

\* ------------------------------------------------------------------------
\* C28: a variable declared twice
\* ------------------------------------------------------------------------

Punctuation == { Symbol(x) : x \in {"(", ")", "[", "]", ".", "->", "<", ">", ";", ","} }

\* C29: two tokens printed one after the other, one of them one of the
\* symbols ( ) [ ] . -> < > ; , have no space between them: an identifier
\* followed by `)` is printed `a)`.
C29_NoSpaceAtPunctuation ==
    (/\ scn.kind = "pair"
     /\ Len(printed) >= 1
     /\ (scn.a[1] \in Punctuation \/ scn.a[2] \in Punctuation))
        => printed[1] = scn.a[1].s \o scn.a[2].s

====
